---------------------------- MODULE Spec2Model ----------------------------
(***************************************************************************)
(* Gradient reducers of GNMT/seq2seq/train/gradient_reducers.py.           *)
(*                                                                         *)
(* Six groups of state; a specification drives one group and leaves        *)
(* the others idle:                                                        *)
(*   SpecCodec   SignCompressor: compress, then uncompress, of one tensor  *)
(*   SpecTB      TensorBuffer: construction and any calls of its methods   *)
(*   SpecExact   one ExactReducer.reduce call on every worker              *)
(*   SpecTopK    one TopKReducer.reduce call on every worker               *)
(*   SpecSingle  one reduce call of any reducer in a world of one worker   *)
(*   Spec        one reduce call of any reducer on every worker            *)
(*   SpecRankK   one reduce call of a reducer of the RankK family          *)
(*   SpecRankKCalls  successive reduce calls of one RankK instance         *)
(*   SpecRankKReuse  successive calls of RankKReducer on a matrix it       *)
(*                   compresses                                            *)
(*   SpecRankKLong   one RankKReducer.reduce call on a list of 46 tensors  *)
(*   SpecFactor  successive reduce calls of Multi_RankKReducer and         *)
(*               HalfRankKReducer                                          *)
(*   SpecSign    construction of a SignReducer, then one reduce call       *)
(*   SpecMajority  one SignSGDwithMajorityVoteReducer.reduce call          *)
(*   SpecAtomo   one AtomoReducer.sample_singular_values call              *)
(*   SpecOrtho   one call of orthogonalize                                 *)
(*   SpecOmni    the chunk memory of one OminiReducer.reduce call          *)
(* The tensors of the codec are records [shape, data], data being the      *)
(* row-major flat content; the tensors of the other groups are references  *)
(* [addr, shape, esize] into a heap of storages, so that two tensors       *)
(* sharing a storage are told from two tensors holding equal values.       *)
(***************************************************************************)
EXTENDS Integers, Sequences, FiniteSets, TLC

VARIABLES
    \* ---- SignCompressor (one compress / uncompress round) ----
    src_tensor,      \* the tensor handed to compress
    dst_tensor,      \* the packed int32 words compress returned
    src_tensor_size, \* the shape compress returned
    new_tensor,      \* the tensor uncompress returned
    cpc,             \* "idle" | "init" | "compressed" | "uncompressed" | "error"
    \* ---- TensorBuffer over a heap of storages ----
    heap,            \* storage address -> flat content
    tensors,         \* the list handed to TensorBuffer(...): [addr, shape, esize]
    dests,           \* the destinations handed to unpack
    tbuf,            \* the TensorBuffer: _start_idx, _end_idx, _tensors, buffer
    buffers,         \* what the last all_gather returned
    tb_n,            \* world size seen by the buffer's collectives
    tb_hist,         \* the calls made so far, oldest first
    \* ---- one reduce(grad_in, grad_out, memory_out) call on every worker ----
    reducer,         \* the reducer class every worker runs
    n_workers,       \* self.n_workers: the world size
    compression,     \* TopKReducer.compression as <<numerator, denominator>>
    names,           \* the parameter name of each tensor of the gradient set
    grad_in,         \* the caller's lists of tensors [addr, shape, esize],
    grad_out,        \*   the same on every worker
    memory_out,
    g0,              \* worker -> the gradient set the caller passed (flat contents)
    rank,            \* the constructor argument rank of the low-rank reducers
    reuse_query,     \* self.reuse_query
    sparsity,        \* RankKSparseReducer.sparsity as <<numerator, denominator>>
    random_seed,     \* the seed every worker's reducer is built with
    bit2byte,        \* whether "import bit2byte" bound the name
    self,            \* worker -> the fields of its reducer instance
    n_calls,         \* worker -> the reduce calls that have returned
    mem,             \* worker -> that process's storages: address -> flat content
    pc,              \* worker -> position in reduce
    local,           \* worker -> the local variables of reduce
    pending,         \* worker -> collectives launched and not yet complete
    arrived,         \* worker -> results of completed collectives not yet waited for
    wire,            \* worker -> the tensors it placed on torch.distributed
    bits_communicated, \* worker -> the running total reduce returns
    \* ---- one call of AtomoReducer.sample_singular_values ----
    atomo,           \* self.rank, the argument, the locals, the position
    \* ---- one call of orthogonalize ----
    ortho,           \* the matrix (written in place), its shape, the column reached
    \* ---- reduce.setup_nnzchunk of one OminiReducer.reduce call ----
    omni             \* the embedding tensors, p_total_size, p_idx, ps, the position

codecVars == <<src_tensor, dst_tensor, src_tensor_size, new_tensor, cpc>>
tbVars == <<heap, tensors, dests, tbuf, buffers, tb_n, tb_hist>>
redConsts == <<reducer, n_workers, compression, names, grad_in, grad_out,
               memory_out, g0, rank, reuse_query, sparsity, random_seed, bit2byte>>
redVars == <<redConsts, self, n_calls, mem, pc, local, pending, arrived, wire,
             bits_communicated>>
vars == <<codecVars, tbVars, redVars, atomo, ortho, omni>>

\* what an action of one group leaves alone: the other groups
CodecFrame == UNCHANGED <<tbVars, redVars, atomo, ortho, omni>>
TBFrame == UNCHANGED <<codecVars, redVars, atomo, ortho, omni>>
\* a step of reduce changes neither the call's arguments nor the other groups
RedFrame == UNCHANGED <<codecVars, tbVars, redConsts, self, n_calls, atomo, ortho, omni>>
\* a step of a reducer that keeps state in its instance
SelfFrame == UNCHANGED <<codecVars, tbVars, redConsts, n_calls, atomo, ortho, omni>>
\* a step of sample_singular_values touches no tensor of the other groups
AtomoFrame == UNCHANGED <<codecVars, tbVars, redVars, ortho, omni>>
\* orthogonalize writes the matrix it is given and nothing else
OrthoFrame == UNCHANGED <<codecVars, tbVars, redVars, atomo, omni>>
\* reduce.setup_nnzchunk binds p_memory, ps and p_idx
OmniFrame == UNCHANGED <<codecVars, tbVars, redVars, atomo, ortho>>

Null == "null"

\* no call of sample_singular_values is under way
AtomoIdle == atomo = "idle"
\* no call of orthogonalize is under way
OrthoIdle == ortho = "idle"
\* no OminiReducer.reduce call is under way
OmniIdle == omni = "idle"

(***************************************************************************)
(* Bounds of the model.                                                    *)
(***************************************************************************)
\* longest flat tensor handed to the sign codec (more than one 32-bit column)
MaxLen == 34
\* most tensors in one list packed into a TensorBuffer
MaxTensors == 2
\* most calls made on one TensorBuffer after its construction
MaxOps == 3
\* largest world size
MaxWorkers == 2
\* most reduce calls made on one reducer instance
MaxCalls == 2

(***************************************************************************)
(* Generic helpers on sequences.                                           *)
(***************************************************************************)
RECURSIVE SeqSum(_)
SeqSum(s) == IF s = <<>> THEN 0 ELSE Head(s) + SeqSum(Tail(s))

RECURSIVE SeqProd(_)
SeqProd(s) == IF s = <<>> THEN 1 ELSE Head(s) * SeqProd(Tail(s))

Range(f) == {f[i] : i \in DOMAIN f}
Min(a, b) == IF a <= b THEN a ELSE b
Max(a, b) == IF a >= b THEN a ELSE b
Abs(a) == IF a < 0 THEN -a ELSE a

nelement_FirstDim(t) == t.shape[1]
\* tensor.nelement(): the product of the dimensions
nelement(t) == SeqProd(t.shape)

(***************************************************************************)
(* Floating-point values are modelled as exact rationals [num, den] in     *)
(* lowest terms with den > 0: a sum or a division never rounds.            *)
(***************************************************************************)
RECURSIVE GCD(_, _)
GCD(a, b) == IF b = 0 THEN a ELSE GCD(b, a % b)

RNorm(n, d) ==
    LET g == GCD(Abs(n), d) IN [num |-> n \div g, den |-> d \div g]

RInt(k) == [num |-> k, den |-> 1]
RAdd(a, b) ==
    LET g == GCD(a.den, b.den)
    IN  RNorm(a.num * (b.den \div g) + b.num * (a.den \div g),
              (a.den \div g) * b.den)
RNeg(a) == [num |-> -a.num, den |-> a.den]
RSub(a, b) == RAdd(a, RNeg(b))
\* a / n for a positive integer n
RDivInt(a, n) == RNorm(a.num, a.den * n)
\* |a| > |b|
RAbsGreater(a, b) == Abs(a.num) * b.den > Abs(b.num) * a.den
RInts(s) == [i \in 1..Len(s) |-> RInt(s[i])]

\* torch.sign on one element
sign(v) == IF v.num > 0 THEN 1 ELSE IF v.num < 0 THEN -1 ELSE 0

(***************************************************************************)
(* SignCompressor.  int32 words are integers in -2^31 .. 2^31-1.           *)
(***************************************************************************)
WordBits == 32

\* x << 1 on an int32 (bit 30 becomes the sign bit, bit 31 is dropped)
Shl1(x) ==
    LET low == x % 1073741824
        b30 == (x \div 1073741824) % 2
    IN  (IF b30 = 1 THEN -2147483647 - 1 ELSE 0) + 2 * low

\* x >> k on an int32 (arithmetic shift), 0 <= k <= 31
Shr(x, k) == IF k <= 30 THEN x \div (2 ^ k) ELSE (x \div 1073741824) \div 2

\* (x >> 1) & 1 on an int32: 1 exactly for a negative sign
SignBit(x) == Shr(x, 1) % 2

\* the bits of rows lo..hi of column c, each at the place the shift loop of
\* bit2byte.packing leaves it: row i (from 1) at bit 32 - i
RECURSIVE PackBits(_, _, _, _)
PackBits(rows, c, lo, hi) ==
    IF lo = hi
    THEN SignBit(rows[lo][c]) * (2 ^ (WordBits - lo))
    ELSE LET mid == (lo + hi) \div 2
         IN  PackBits(rows, c, lo, mid) + PackBits(rows, c, mid + 1, hi)

\* bit2byte.packing on one column: src[0] = bit(src[0]); then for i = 1..31
\* src[0] <<= 1; src[i] = bit(src[i]); src[0] |= src[i].  Row 0 ends in the
\* sign bit of the word.
PackColumn(rows, c) ==
    (IF SignBit(rows[1][c]) = 1 THEN -2147483647 - 1 ELSE 0)
        + PackBits(rows, c, 2, WordBits)

\* bit2byte.packing(src): src is 32 rows of int32, the result is row 0
bit2byte_packing(rows) == [c \in 1..Len(rows[1]) |-> PackColumn(rows, c)]

\* bit2byte.unpacking(src, dst): for i = 31 .. 0: dst[i] &= src; dst[i] <<= 1;
\* src >>= 1.  dst holds ones, so dst[i] becomes 0 or 2.
bit2byte_unpacking(src, dst) ==
    [r \in 1..WordBits |->
        [c \in 1..Len(dst[r]) |->
            Shl1(IF dst[r][c] % 2 = 1 /\ Shr(src[c], WordBits - r) % 2 = 1
                 THEN 1 ELSE 0)]]

\* tensor.view(32, -1) of a flat tensor whose length is a multiple of 32
View32(flat) ==
    LET cols == Len(flat) \div WordBits
    IN  [r \in 1..WordBits |-> [c \in 1..cols |-> flat[(r - 1) * cols + c]]]

\* tensor.view(-1) of 32 rows
Flatten32(rows) ==
    LET cols == Len(rows[1])
    IN  [k \in 1..(WordBits * cols) |->
            rows[((k - 1) \div cols) + 1][((k - 1) % cols) + 1]]

\* add_elm = 32 - (len % 32); if len % 32 == 0: add_elm = 0
AddElm(len) == IF len % WordBits = 0 THEN 0 ELSE WordBits - (len % WordBits)

\* SignCompressor.element_num
element_num(size) == SeqProd(size)

\* view(32, -1) of no elements is ambiguous: torch raises
CanView32(len) == len > 0

\* SignCompressor.packing: (dst_tensor, src_tensor_size)
packing(t) ==
    LET signs   == [i \in 1..Len(t.data) |-> sign(t.data[i])]
        src_len == Len(signs)
        padded  == signs \o [i \in 1..AddElm(src_len) |-> 0]
    IN  <<bit2byte_packing(View32(padded)), t.shape>>

Decode_NoNegate(v) == v - 1
\* new_tensor = -new_tensor.add_(-1)
Decode(v) == -(v - 1)

\* SignCompressor.unpacking
unpacking(src, size) ==
    LET n     == element_num(size)
        total == n + AddElm(n)
        ones  == [i \in 1..total |-> 1]
        flat  == Flatten32(bit2byte_unpacking(src, View32(ones)))
    IN  [shape |-> size, data |-> [i \in 1..n |-> RInt(Decode(flat[i]))]]

compress(t) == packing(t)
uncompress(src, size) == unpacking(src, size)

(***************************************************************************)
(* Inputs of the codec: flat length 0..MaxLen, a background value and one  *)
(* position holding another value; 1-D, and 2-D when the length is even.   *)
(***************************************************************************)
CodecVals == {-2, 0, 3}

CodecShapes(len) ==
    {<<len>>} \cup (IF len > 0 /\ len % 2 = 0 THEN {<<2, len \div 2>>} ELSE {})

CodecInputs ==
    {[shape |-> sh, data |-> [i \in 1..len |-> RInt(IF i = p THEN v ELSE bg)]] :
        <<len, bg, p, v, sh>> \in
            {q \in (0..MaxLen) \X CodecVals \X (1..MaxLen) \X CodecVals
                    \X ({<<n>> : n \in 0..MaxLen}
                        \cup {<<2, n>> : n \in 1..MaxLen}) :
                /\ q[3] <= (IF q[1] = 0 THEN 1 ELSE q[1])
                /\ q[5] \in CodecShapes(q[1])}}

CodecIdle ==
    /\ src_tensor = Null
    /\ dst_tensor = Null
    /\ src_tensor_size = Null
    /\ new_tensor = Null
    /\ cpc = "idle"

CodecInit ==
    /\ src_tensor \in CodecInputs
    /\ dst_tensor = Null
    /\ src_tensor_size = Null
    /\ new_tensor = Null
    /\ cpc = "init"

\* my_bits, sign_size = sign_compressor.compress(tensor)
Compress ==
    /\ cpc = "init"
    /\ CanView32(Len(src_tensor.data))
    /\ dst_tensor' = compress(src_tensor)[1]
    /\ src_tensor_size' = compress(src_tensor)[2]
    /\ cpc' = "compressed"
    /\ UNCHANGED <<src_tensor, new_tensor>>
    /\ CodecFrame

\* compress of an empty tensor: view(32, -1) raises
CompressRaises ==
    /\ cpc = "init"
    /\ ~CanView32(Len(src_tensor.data))
    /\ cpc' = "error"
    /\ UNCHANGED <<src_tensor, dst_tensor, src_tensor_size, new_tensor>>
    /\ CodecFrame

\* sign_compressor.uncompress(bits, sign_size)
Uncompress ==
    /\ cpc = "compressed"
    /\ new_tensor' = uncompress(dst_tensor, src_tensor_size)
    /\ cpc' = "uncompressed"
    /\ UNCHANGED <<src_tensor, dst_tensor, src_tensor_size>>
    /\ CodecFrame

CodecNext == Compress \/ CompressRaises \/ Uncompress

(***************************************************************************)
(* TensorBuffer.  Offsets are 0-based as in the source: the segment of     *)
(* tensor i is buffer[start : end], elements start+1 .. end of the flat    *)
(* sequence.                                                               *)
(***************************************************************************)
\* indices = [0]; for tensor in tensors: indices.append(indices[-1] + nelement)
RECURSIVE Indices(_, _)
Indices(ts, acc) ==
    IF ts = <<>> THEN acc
    ELSE Indices(Tail(ts), Append(acc, acc[Len(acc)] + nelement(Head(ts))))

\* self._start_idx = indices[:-1]
start_idx(ts) == SubSeq(Indices(ts, <<0>>), 1, Len(ts))
\* self._end_idx = indices[1:]
end_idx(ts) == SubSeq(Indices(ts, <<0>>), 2, Len(ts) + 1)

\* buffer[start : end]
Segment(buf, start, end) == SubSeq(buf, start + 1, end)

\* buffer[start : end] = data
WriteSegment(buf, start, end, data) ==
    [k \in 1..Len(buf) |->
        IF k > start /\ k <= end THEN data[k - start] ELSE buf[k]]

\* torch.cat([t.view(-1) for t in tensors]) on the flat contents
RECURSIVE Cat(_)
Cat(datas) == IF datas = <<>> THEN <<>> ELSE Head(datas) \o Cat(Tail(datas))

\* the storage torch.cat returns: a fresh one
CatAddr_Alias(h, ts) == IF Len(ts) = 1 THEN ts[1].addr ELSE Len(h) + 1
CatAddr(h, ts) == Len(h) + 1

\* the heap after torch.cat wrote its result at address a
CatHeap(h, ts, a) ==
    LET flat == Cat([i \in 1..Len(ts) |-> h[ts[i].addr]])
    IN  IF a = Len(h) + 1 THEN Append(h, flat) ELSE [h EXCEPT ![a] = flat]

\* TensorBuffer.__init__
TensorBuffer_init(h, ts) ==
    [_start_idx |-> start_idx(ts),
     _end_idx   |-> end_idx(ts),
     _tensors   |-> ts,
     buffer     |-> [addr |-> CatAddr(h, ts), shape |-> <<Indices(ts, <<0>>)[Len(ts) + 1]>>,
                     esize |-> ts[1].esize]]

getitem_NoOffset(h, tb, i) ==
    Segment(h[tb.buffer.addr], 0, tb._end_idx[i] - tb._start_idx[i])
\* TensorBuffer.__getitem__: the content of entry i
getitem(h, tb, i) == Segment(h[tb.buffer.addr], tb._start_idx[i], tb._end_idx[i])

\* TensorBuffer.pack: for tensor, entry in zip(tensors, self): entry[:] = tensor
RECURSIVE pack(_, _, _, _)
pack(h, tb, ts, i) ==
    IF i > Min(Len(ts), Len(tb._tensors)) THEN h
    ELSE pack([h EXCEPT ![tb.buffer.addr] =
                  WriteSegment(@, tb._start_idx[i], tb._end_idx[i], h[ts[i].addr])],
              tb, ts, i + 1)

\* TensorBuffer.unpack: for tensor, entry in zip(tensors, self): tensor[:] = entry
RECURSIVE unpack(_, _, _, _)
unpack(h, tb, ts, i) ==
    IF i > Min(Len(ts), Len(tb._tensors)) THEN h
    ELSE unpack([h EXCEPT ![ts[i].addr] = getitem(h, tb, i)], tb, ts, i + 1)

\* TensorBuffer.nelement / element_size / bits
TB_nelement(tb) == nelement(tb.buffer)
TB_element_size(tb) == tb.buffer.esize
\* return 8 * self.nelement() * self.element_size()
TB_bits(tb) == 8 * TB_nelement(tb) * TB_element_size(tb)
\* n_bits(tensor)
n_bits(t) == 8 * nelement(t) * t.esize

(***************************************************************************)
(* The TensorBuffer specification: a list of source tensors, each with a   *)
(* storage of its own holding values that differ from every other element, *)
(* destinations of the same shapes, and then any MaxOps calls.             *)
(***************************************************************************)
TBShapes == {<<0>>, <<1>>, <<2>>, <<1, 2>>}
TBElementSizes == {4, 8}

TBShapeLists ==
    UNION {[1..n -> TBShapes] : n \in 0..MaxTensors}

\* the content of source tensor i: 10 * i + j at flat position j
Labels(i, n) == [j \in 1..n |-> RInt(10 * i + j)]

TBIdle ==
    /\ heap = <<>>
    /\ tensors = <<>>
    /\ dests = <<>>
    /\ tbuf = Null
    /\ buffers = <<>>
    /\ tb_n = 0
    /\ tb_hist = <<"idle">>

TBInit ==
    \E shapes \in TBShapeLists, es \in TBElementSizes, n \in {1, 2} :
        LET k == Len(shapes) IN
        /\ tensors = [i \in 1..k |-> [addr |-> i, shape |-> shapes[i], esize |-> es]]
        /\ dests = [i \in 1..k |-> [addr |-> k + i, shape |-> shapes[i], esize |-> es]]
        /\ heap = [a \in 1..(2 * k) |->
                     IF a <= k THEN Labels(a, SeqProd(shapes[a]))
                     ELSE [j \in 1..SeqProd(shapes[a - k]) |-> RInt(0)]]
        /\ tbuf = Null
        /\ buffers = <<>>
        /\ tb_n = n
        /\ tb_hist = <<>>

Constructed == tb_hist # <<>> /\ tb_hist[1] = "new"
MayCall == Constructed /\ Len(tb_hist) <= MaxOps

\* TensorBuffer(tensors)
TB_New ==
    /\ tb_hist = <<>>
    /\ tensors # <<>>
    /\ tbuf' = TensorBuffer_init(heap, tensors)
    /\ heap' = CatHeap(heap, tensors, CatAddr(heap, tensors))
    /\ tb_hist' = <<"new">>
    /\ UNCHANGED <<tensors, dests, buffers, tb_n>>
    /\ TBFrame

\* TensorBuffer([]): torch.cat of an empty list raises
TB_NewRaises ==
    /\ tb_hist = <<>>
    /\ tensors = <<>>
    /\ tb_hist' = <<"error">>
    /\ UNCHANGED <<heap, tensors, dests, tbuf, buffers, tb_n>>
    /\ TBFrame

\* buffer.pack()
TB_Pack ==
    /\ MayCall
    /\ heap' = pack(heap, tbuf, tbuf._tensors, 1)
    /\ tb_hist' = Append(tb_hist, "pack")
    /\ UNCHANGED <<tensors, dests, tbuf, buffers, tb_n>>
    /\ TBFrame

\* buffer.unpack(dests)
TB_Unpack ==
    /\ MayCall
    /\ heap' = unpack(heap, tbuf, dests, 1)
    /\ tb_hist' = Append(tb_hist, "unpack")
    /\ UNCHANGED <<tensors, dests, tbuf, buffers, tb_n>>
    /\ TBFrame

\* buffer.all_reduce(): the in-place sum; every other worker holds ones
TB_AllReduce ==
    /\ MayCall
    /\ heap' = [heap EXCEPT ![tbuf.buffer.addr] =
                    [k \in 1..Len(@) |-> RAdd(@[k], RInt(tb_n - 1))]]
    /\ tb_hist' = Append(tb_hist, "all_reduce")
    /\ UNCHANGED <<tensors, dests, tbuf, buffers, tb_n>>
    /\ TBFrame

\* buffer.buffer /= n_workers
TB_Divide ==
    /\ MayCall
    /\ heap' = [heap EXCEPT ![tbuf.buffer.addr] =
                    [k \in 1..Len(@) |-> RDivInt(@[k], tb_n)]]
    /\ tb_hist' = Append(tb_hist, "divide")
    /\ UNCHANGED <<tensors, dests, tbuf, buffers, tb_n>>
    /\ TBFrame

\* buffer.all_gather(): n_workers empty_like buffers, then all_gather; with
\* one worker out_list[0].data = in_tensor makes the result share the buffer
TB_AllGather ==
    /\ MayCall
    /\ LET mine == heap[tbuf.buffer.addr]
           ones == [k \in 1..Len(mine) |-> RInt(1)]
       IN  IF tb_n = 1
           THEN /\ heap' = heap
                /\ buffers' = <<tbuf.buffer>>
           ELSE /\ heap' = heap \o [w \in 1..tb_n |-> IF w = 1 THEN mine ELSE ones]
                /\ buffers' = [w \in 1..tb_n |->
                                 [tbuf.buffer EXCEPT !.addr = Len(heap) + w]]
    /\ tb_hist' = Append(tb_hist, "all_gather")
    /\ UNCHANGED <<tensors, dests, tbuf, tb_n>>
    /\ TBFrame

\* the caller changes a source tensor in place after the buffer was built
TB_SourceWrite ==
    /\ MayCall
    /\ \E i \in 1..Len(tensors) :
        /\ heap[tensors[i].addr] # <<>>
        /\ heap' = [heap EXCEPT ![tensors[i].addr][1] = RInt(99)]
    /\ tb_hist' = Append(tb_hist, "source_write")
    /\ UNCHANGED <<tensors, dests, tbuf, buffers, tb_n>>
    /\ TBFrame

TBNext ==
    \/ TB_New
    \/ TB_NewRaises
    \/ TB_Pack
    \/ TB_Unpack
    \/ TB_AllReduce
    \/ TB_Divide
    \/ TB_AllGather
    \/ TB_SourceWrite

(***************************************************************************)
(* Reducers: every worker runs one reduce call on its own gradient set.    *)
(* The lists grad_in, grad_out, memory_out are distinct allocations in the *)
(* worker's memory; grad_out and memory_out hold stale values before the   *)
(* call.  A collective completes once every worker has launched it.        *)
(***************************************************************************)
Workers == 1..n_workers

\* element sizes in bytes: torch.float32 and torch.int (int32)
FloatSize == 4
IntSize == 4

RedVals == {-1, 0, 2}
StaleOut == RInt(77)
StaleMem == RInt(88)

\* the gradient sets: a 2-D embedding tensor and a bias, or one 1-D tensor
ShapeLists ==
    { <<[name |-> "embedder.weight", shape |-> <<1, 2>>],
        [name |-> "bias", shape |-> <<1>>]>>,
      <<[name |-> "weight", shape |-> <<3>>]>> }

Compressions(r) ==
    IF r = "TopKReducer" THEN {<<1, 244>>, <<3, 2>>} ELSE {<<1, 244>>}

\* the gradient sets of the shapes sl with elements of RedVals: the elements
\* of a set are pairwise different (no two magnitudes tie) or all the same
\* (every magnitude ties)
GradSets(sl) ==
    LET total == SeqSum([i \in 1..Len(sl) |-> SeqProd(sl[i].shape)])
        first(i) == SeqSum([j \in 1..(i - 1) |-> SeqProd(sl[j].shape)])
    IN  {[i \in 1..Len(sl) |->
            [j \in 1..SeqProd(sl[i].shape) |-> RInt(flat[first(i) + j])]] :
         flat \in {f \in [1..total -> RedVals] :
                      \/ \A x, y \in 1..total : x # y => f[x] # f[y]
                      \/ \A x, y \in 1..total : f[x] = f[y]}}

\* reducers called as reduce(grad_out): the gradient is reduced in place
InPlaceReducers == {"Exact_Embed_Reducer"}

RedIdle ==
    /\ reducer = "none"
    /\ n_workers = 0
    /\ compression = <<1, 244>>
    /\ names = <<>>
    /\ grad_in = <<>>
    /\ grad_out = <<>>
    /\ memory_out = <<>>
    /\ g0 = <<>>
    /\ rank = 0
    /\ reuse_query = FALSE
    /\ sparsity = <<1, 10>>
    /\ random_seed = 0
    /\ bit2byte = TRUE
    /\ self = <<>>
    /\ n_calls = <<>>
    /\ mem = <<>>
    /\ pc = <<>>
    /\ local = <<>>
    /\ pending = <<>>
    /\ arrived = <<>>
    /\ wire = <<>>
    /\ bits_communicated = <<>>

\* the arguments of a reduce call on every worker of a world of n: the
\* lists grad_in, grad_out, memory_out over the shapes sl, worker w holding
\* the gradient set g[w]; grad_out and memory_out hold what earlier calls left
CallLayout(r, n, sl, g) ==
    LET k == Len(sl)
        ref(base, i) == [addr |-> base + i, shape |-> sl[i].shape,
                         esize |-> FloatSize]
        stale(v, i) == [j \in 1..SeqProd(sl[i].shape) |-> v]
    IN  /\ reducer = r
        /\ n_workers = n
        /\ names = [i \in 1..k |-> sl[i].name]
        /\ g0 = g
        /\ IF r \in InPlaceReducers
           THEN /\ grad_in = <<>>
                /\ grad_out = [i \in 1..k |-> ref(0, i)]
                /\ memory_out = <<>>
                /\ mem = [w \in 1..n |-> g[w]]
           ELSE /\ grad_in = [i \in 1..k |-> ref(0, i)]
                /\ grad_out = [i \in 1..k |-> ref(k, i)]
                /\ memory_out = [i \in 1..k |-> ref(2 * k, i)]
                /\ mem = [w \in 1..n |->
                            g[w] \o [i \in 1..k |-> stale(StaleOut, i)]
                                 \o [i \in 1..k |-> stale(StaleMem, i)]]
        /\ n_calls = [w \in 1..n |-> 0]
        /\ local = [w \in 1..n |-> <<>>]
        /\ pending = [w \in 1..n |-> <<>>]
        /\ arrived = [w \in 1..n |-> <<>>]
        /\ wire = [w \in 1..n |-> <<>>]
        /\ bits_communicated = [w \in 1..n |-> 0]

\* Reducer.__init__ on worker w of a world of n: self.n_workers =
\* torch.distributed.get_world_size(), self.rank = get_rank() (1 and 0
\* without torch.distributed); the workers are numbered from 1 here, the
\* ranks from 0
Reducer_init(n, w) == [n_workers |-> n, rank |-> w - 1]

\* the constructor arguments of the reducers that keep no factor memory and
\* draw no random number
NoInstanceArgs ==
    /\ rank = 0
    /\ reuse_query = FALSE
    /\ sparsity = <<1, 10>>
    /\ random_seed = 0

\* those reducers after construction: they have no constructor of their own
\* or one that leaves n_workers and rank alone
NoInstanceState(n) ==
    /\ NoInstanceArgs
    /\ self = [w \in 1..n |-> Reducer_init(n, w)]

\* Reducer.__init__ on every worker of a world of n (n in W) and the
\* arguments of the reduce call
RedInit(R, W) ==
    \E r \in R, n \in W, sl \in ShapeLists :
    \E c \in Compressions(r), g \in [1..n -> GradSets(sl)] :
        /\ CallLayout(r, n, sl, g)
        /\ compression = c
        /\ NoInstanceState(n)
        /\ bit2byte = TRUE
        /\ pc = [w \in 1..n |-> "start"]

\* what a tensor holds in the memory h
Val(h, t) == h[t.addr]

\* tensor[:] = value for every tensor of ts
Fill(h, ts, v) ==
    [a \in 1..Len(h) |->
        IF \E i \in 1..Len(ts) : ts[i].addr = a
        THEN [j \in 1..Len(h[a]) |-> v] ELSE h[a]]

RECURSIVE CopyAll(_, _, _, _)
CopyAll_None(h, list_in, list_out, i) == h
\* for t_in, t_out in zip(list_in, list_out): t_out[:] = t_in
CopyAll(h, list_in, list_out, i) ==
    IF i > Min(Len(list_in), Len(list_out)) THEN h
    ELSE CopyAll([h EXCEPT ![list_out[i].addr] = h[list_in[i].addr]],
                 list_in, list_out, i + 1)

\* the element-wise sum of the workers' buffers
RECURSIVE SumUpTo(_, _, _)
SumUpTo(datas, k, w) ==
    IF w = 0 THEN RInt(0) ELSE RAdd(SumUpTo(datas, k, w - 1), datas[w][k])

AllReduceSum_Own(datas, w) == datas[w]
\* torch.distributed.all_reduce: what worker w's buffer holds afterwards
AllReduceSum(datas, w) ==
    [k \in 1..Len(datas[w]) |-> SumUpTo(datas, k, Len(datas))]

\* an entry of the wire log
Sent(op, n, esize) == [op |-> op, nelement |-> n, esize |-> esize]

\* a collective every worker has launched completes: all_reduce leaves the
\* sum in every worker's buffer, all_gather hands every worker the list of
\* all contributions
Collective ==
    /\ \A w \in Workers : pending[w] # <<>>
    /\ \A w \in Workers : Head(pending[w]).op = Head(pending[1]).op
    /\ LET op    == Head(pending[1]).op
           datas == [w \in Workers |-> Head(pending[w]).data]
       IN  /\ mem' = [w \in Workers |->
                        IF op = "all_reduce"
                        THEN [mem[w] EXCEPT ![Head(pending[w]).addr] =
                                 AllReduceSum(datas, w)]
                        ELSE mem[w]]
           /\ arrived' = [w \in Workers |->
                            Append(arrived[w],
                                   IF op = "all_reduce" THEN <<>> ELSE datas)]
    /\ pending' = [w \in Workers |-> Tail(pending[w])]
    /\ UNCHANGED <<pc, local, wire, bits_communicated>>
    /\ RedFrame

(***************************************************************************)
(* ExactReducer.reduce and reduce_mean_list                                *)
(***************************************************************************)
\* buffer.buffer /= n_workers
DivideBuffer(h, tb, n) ==
    [h EXCEPT ![tb.buffer.addr] = [k \in 1..Len(@) |-> RDivInt(@[k], n)]]

\* n_workers == 1: zero the memory, copy list_in to list_out, return 0
Exact_Single(w) ==
    /\ reducer = "ExactReducer"
    /\ pc[w] = "start"
    /\ n_workers = 1
    /\ mem' = [mem EXCEPT ![w] =
                  CopyAll(Fill(mem[w], memory_out, RInt(0)), grad_in, grad_out, 1)]
    /\ bits_communicated' = [bits_communicated EXCEPT ![w] = 0]
    /\ pc' = [pc EXCEPT ![w] = "done"]
    /\ UNCHANGED <<local, pending, arrived, wire>>
    /\ RedFrame

\* n_workers > 1: zero the memory, buffer = TensorBuffer(list_in),
\* buffer.all_reduce() is launched
Exact_Pack(w) ==
    /\ reducer = "ExactReducer"
    /\ pc[w] = "start"
    /\ n_workers > 1
    /\ LET h1 == Fill(mem[w], memory_out, RInt(0))
           tb == TensorBuffer_init(h1, grad_in)
           h2 == CatHeap(h1, grad_in, CatAddr(h1, grad_in))
       IN  /\ mem' = [mem EXCEPT ![w] = h2]
           /\ local' = [local EXCEPT ![w] = [buffer |-> tb]]
           /\ pending' = [pending EXCEPT ![w] =
                  Append(@, [op |-> "all_reduce", addr |-> tb.buffer.addr,
                             data |-> h2[tb.buffer.addr]])]
           /\ wire' = [wire EXCEPT ![w] =
                  Append(@, Sent("all_reduce", TB_nelement(tb), TB_element_size(tb)))]
    /\ pc' = [pc EXCEPT ![w] = "all_reduce"]
    /\ UNCHANGED <<arrived, bits_communicated>>
    /\ RedFrame

\* all_reduce has returned: buffer.buffer /= n_workers, bits = buffer.bits(),
\* buffer.unpack(list_out), return bits
Exact_Unpack(w) ==
    /\ reducer = "ExactReducer"
    /\ pc[w] = "all_reduce"
    /\ arrived[w] # <<>>
    /\ LET tb == local[w].buffer
           h1 == DivideBuffer(mem[w], tb, n_workers)
       IN  /\ mem' = [mem EXCEPT ![w] = unpack(h1, tb, grad_out, 1)]
           /\ bits_communicated' = [bits_communicated EXCEPT ![w] = TB_bits(tb)]
    /\ arrived' = [arrived EXCEPT ![w] = Tail(@)]
    /\ pc' = [pc EXCEPT ![w] = "done"]
    /\ UNCHANGED <<local, pending, wire>>
    /\ RedFrame

ExactNext ==
    \/ \E w \in Workers : Exact_Single(w)
    \/ \E w \in Workers : Exact_Pack(w)
    \/ \E w \in Workers : Exact_Unpack(w)
    \/ Collective

(***************************************************************************)
(* TopKReducer.reduce                                                      *)
(***************************************************************************)
\* top_size = max(1, int(0.5 * self.compression * tensor.nelement()))
top_size(c, n) == Max(1, (c[1] * n) \div (2 * c[2]))

TopKSets_Any(data, k) ==
    {S \in SUBSET (0..(Len(data) - 1)) : Cardinality(S) = k}
\* torch.topk(tensor.view(-1).abs(), k, sorted=False): the results it may
\* give, as sets of 0-based flat positions; ties may go either way
TopKSets(data, k) ==
    {S \in SUBSET (0..(Len(data) - 1)) :
        /\ Cardinality(S) = k
        /\ \A i \in S : \A j \in (0..(Len(data) - 1)) \ S :
               ~RAbsGreater(data[j + 1], data[i + 1])}

\* the positions of a result in ascending order (the order torch.topk gives
\* with sorted=False is unspecified and nothing below depends on it)
RECURSIVE Ascending(_)
Ascending(S) ==
    IF S = {} THEN <<>>
    ELSE LET m == CHOOSE x \in S : \A y \in S : x <= y
         IN  <<m>> \o Ascending(S \ {m})

\* tensor_idx: the offsets of each tensor's top_size entries in the flat lists
RECURSIVE TopIndices(_, _, _)
TopIndices(ts, c, acc) ==
    IF ts = <<>> THEN acc
    ELSE TopIndices(Tail(ts), c,
                    Append(acc, acc[Len(acc)] + top_size(c, nelement(Head(ts)))))

flatgrad_start_idx(ts, c) == SubSeq(TopIndices(ts, c, <<0>>), 1, Len(ts))
flatgrad_end_idx(ts, c) == SubSeq(TopIndices(ts, c, <<0>>), 2, Len(ts) + 1)

\* every choice torch.topk may make, tensor by tensor
TopKChoices(h, ts, c) ==
    {sel \in [1..Len(ts) ->
                SUBSET (0..(SeqSum([i \in 1..Len(ts) |-> nelement(ts[i])]) - 1))] :
        \A i \in 1..Len(ts) :
            sel[i] \in TopKSets(Val(h, ts[i]), top_size(c, nelement(ts[i])))}

\* flat_positions[start:end] = positions
FlatPositions(sel) == Cat([i \in 1..Len(sel) |-> Ascending(sel[i])])

\* values = tensor.view(-1)[positions]; flat_values[start:end] = values
FlatValues(h, ts, sel) ==
    Cat([i \in 1..Len(ts) |->
            [j \in 1..Cardinality(sel[i]) |->
                Val(h, ts[i])[Ascending(sel[i])[j] + 1]]])

ZeroSelected_Keep(data, positions) == data
\* mem.view(-1)[positions.long()] = 0.0
ZeroSelected(data, positions) ==
    [x \in 1..Len(data) |->
        IF \E j \in 1..Len(positions) : positions[j] = x - 1
        THEN RInt(0) ELSE data[x]]

\* reduce.memory: mem.data[:] = tensor; mem.view(-1)[positions] = 0.0
RECURSIVE TopKMemory(_, _, _, _, _, _, _)
TopKMemory(h, ts, ms, fp, st, en, i) ==
    IF i > Min(Len(ts), Len(ms)) THEN h
    ELSE TopKMemory(
            [h EXCEPT ![ms[i].addr] =
                ZeroSelected(h[ts[i].addr], Segment(fp, st[i], en[i]))],
            ts, ms, fp, st, en, i + 1)

IndexAdd_Assign(data, positions, values, n) ==
    [x \in 1..Len(data) |->
        IF \E j \in 1..Len(positions) : positions[j] = x - 1
        THEN LET j == CHOOSE j \in 1..Len(positions) : positions[j] = x - 1
             IN  RDivInt(values[j], n)
        ELSE data[x]]
\* out.view(-1)[positions.long()] += values / n: the indexed elements are
\* read, added to and written back (with a position repeated, the last wins)
IndexAdd(data, positions, values, n) ==
    [x \in 1..Len(data) |->
        IF \E j \in 1..Len(positions) : positions[j] = x - 1
        THEN LET j == CHOOSE j \in 1..Len(positions) :
                        /\ positions[j] = x - 1
                        /\ \A q \in (j + 1)..Len(positions) : positions[q] # x - 1
             IN  RAdd(data[x], RDivInt(values[j], n))
        ELSE data[x]]

\* for pos, val in zip(worker_positions, worker_values): out[...] += ...
RECURSIVE CombineWorkers(_, _, _, _, _, _, _)
CombineWorkers(data, wp, wv, start, end, n, v) ==
    IF v > Min(Len(wp), Len(wv)) THEN data
    ELSE CombineWorkers(
            IndexAdd(data, Segment(wp[v], start, end), Segment(wv[v], start, end), n),
            wp, wv, start, end, n, v + 1)

\* reduce.combine: out.data[:] = 0, then every worker's entries are added
RECURSIVE TopKCombine(_, _, _, _, _, _, _, _)
TopKCombine(h, outs, wp, wv, st, en, n, i) ==
    IF i > Min(Len(outs), Len(st)) THEN h
    ELSE TopKCombine(
            [h EXCEPT ![outs[i].addr] =
                CombineWorkers([x \in 1..Len(@) |-> RInt(0)], wp, wv,
                               st[i], en[i], n, 1)],
            outs, wp, wv, st, en, n, i + 1)

\* n_bits(flat_values) + n_bits(flat_positions)
TopKBits(fv, fp) == 8 * Len(fv) * FloatSize + 8 * Len(fp) * IntSize

\* reduce.flatpack, reduce.topk, reduce.memory: the locals and the memory
TopKLocals(h, sel) ==
    [flat_values |-> FlatValues(h, grad_in, sel),
     flat_positions |-> FlatPositions(sel),
     start_idx |-> flatgrad_start_idx(grad_in, compression),
     end_idx |-> flatgrad_end_idx(grad_in, compression)]

TopKSelected(h, l) ==
    TopKMemory(h, grad_in, memory_out, l.flat_positions, l.start_idx, l.end_idx, 1)

\* n_workers == 1: select, set the memory, worker_values = [flat_values],
\* combine, return the bits of the two flat lists
TopK_Single(w) ==
    /\ reducer = "TopKReducer"
    /\ pc[w] = "start"
    /\ n_workers = 1
    /\ \E sel \in TopKChoices(mem[w], grad_in, compression) :
        LET l  == TopKLocals(mem[w], sel)
            h1 == TopKSelected(mem[w], l)
        IN  /\ local' = [local EXCEPT ![w] = l]
            /\ mem' = [mem EXCEPT ![w] =
                   TopKCombine(h1, grad_out, <<l.flat_positions>>, <<l.flat_values>>,
                               l.start_idx, l.end_idx, n_workers, 1)]
            /\ bits_communicated' = [bits_communicated EXCEPT ![w] =
                   @ + TopKBits(l.flat_values, l.flat_positions)]
    /\ pc' = [pc EXCEPT ![w] = "done"]
    /\ UNCHANGED <<pending, arrived, wire>>
    /\ RedFrame

\* n_workers > 1: select, set the memory, launch the two all_gathers
TopK_Gather(w) ==
    /\ reducer = "TopKReducer"
    /\ pc[w] = "start"
    /\ n_workers > 1
    /\ \E sel \in TopKChoices(mem[w], grad_in, compression) :
        LET l == TopKLocals(mem[w], sel)
        IN  /\ local' = [local EXCEPT ![w] = l]
            /\ mem' = [mem EXCEPT ![w] = TopKSelected(mem[w], l)]
            /\ pending' = [pending EXCEPT ![w] =
                   @ \o <<[op |-> "all_gather", data |-> l.flat_values],
                          [op |-> "all_gather", data |-> l.flat_positions]>>]
            /\ wire' = [wire EXCEPT ![w] =
                   @ \o <<Sent("all_gather", Len(l.flat_values), FloatSize),
                          Sent("all_gather", Len(l.flat_positions), IntSize)>>]
    /\ pc' = [pc EXCEPT ![w] = "gather"]
    /\ UNCHANGED <<arrived, bits_communicated>>
    /\ RedFrame

\* h1.wait(); h2.wait(); count the bits; combine; return
TopK_Combine(w) ==
    /\ reducer = "TopKReducer"
    /\ pc[w] = "gather"
    /\ Len(arrived[w]) = 2
    /\ LET l == local[w]
       IN  /\ mem' = [mem EXCEPT ![w] =
                  TopKCombine(mem[w], grad_out, arrived[w][2], arrived[w][1],
                              l.start_idx, l.end_idx, n_workers, 1)]
           /\ bits_communicated' = [bits_communicated EXCEPT ![w] =
                  @ + TopKBits(l.flat_values, l.flat_positions)]
    /\ arrived' = [arrived EXCEPT ![w] = <<>>]
    /\ pc' = [pc EXCEPT ![w] = "done"]
    /\ UNCHANGED <<local, pending, wire>>
    /\ RedFrame

TopKNext ==
    \/ \E w \in Workers : TopK_Single(w)
    \/ \E w \in Workers : TopK_Gather(w)
    \/ \E w \in Workers : TopK_Combine(w)
    \/ Collective

(***************************************************************************)
(* SignReducer.reduce                                                      *)
(***************************************************************************)
\* the flat buffer as the tensor handed to the compressor
BufferTensor(h, tb) == [shape |-> tb.buffer.shape, data |-> h[tb.buffer.addr]]

\* torch.stack(flatsigns).sum(dim=0) / self.n_workers, flatsigns being the
\* uncompressed bits of every worker
avg_flatsign(bits, sign_size, n) ==
    LET flatsigns == [v \in 1..Len(bits) |-> uncompress(bits[v], sign_size).data]
    IN  [k \in 1..Len(flatsigns[1]) |->
            RDivInt(SumUpTo(flatsigns, k, Len(flatsigns)), n)]

\* reduce.memory: mem.data[:] = tensor; mem.data.add_(tensor.sign())
RECURSIVE SignMemory(_, _, _, _)
SignMemory(h, ts, ms, i) ==
    IF i > Min(Len(ts), Len(ms)) THEN h
    ELSE SignMemory(
            [h EXCEPT ![ms[i].addr] =
                [x \in 1..Len(h[ts[i].addr]) |->
                    RAdd(h[ts[i].addr][x], RInt(sign(h[ts[i].addr][x])))]],
            ts, ms, i + 1)

\* reduce.average and reduce.memory: flatgrad.buffer = avg_flatsign binds the
\* buffer to a new tensor; every entry of flatgrad is copied to its out
SignFinish(h, tb, bits, sign_size, n) ==
    LET h1  == Append(h, avg_flatsign(bits, sign_size, n))
        tb1 == [tb EXCEPT !.buffer.addr = Len(h1)]
    IN  SignMemory(unpack(h1, tb1, grad_out, 1), grad_in, memory_out, 1)

\* n_bits(my_bits): my_bits is a tensor of int32 words
SignBits(my_bits) == 8 * Len(my_bits) * IntSize

\* n_workers == 1: bits = [my_bits], nothing is handed to the transport
Sign_Single(w) ==
    /\ reducer = "SignReducer"
    /\ pc[w] = "start"
    /\ bit2byte
    /\ n_workers = 1
    /\ LET tb == TensorBuffer_init(mem[w], grad_in)
           h1 == CatHeap(mem[w], grad_in, CatAddr(mem[w], grad_in))
           c  == compress(BufferTensor(h1, tb))
       IN  /\ local' = [local EXCEPT ![w] =
                  [buffer |-> tb, my_bits |-> c[1], sign_size |-> c[2]]]
           /\ mem' = [mem EXCEPT ![w] = SignFinish(h1, tb, <<c[1]>>, c[2], n_workers)]
           /\ bits_communicated' = [bits_communicated EXCEPT ![w] = @ + SignBits(c[1])]
    /\ pc' = [pc EXCEPT ![w] = "done"]
    /\ UNCHANGED <<pending, arrived, wire>>
    /\ RedFrame

\* n_workers > 1: flatpack, compress, all_gather(bits, my_bits)
Sign_Gather(w) ==
    /\ reducer = "SignReducer"
    /\ pc[w] = "start"
    /\ bit2byte
    /\ n_workers > 1
    /\ LET tb == TensorBuffer_init(mem[w], grad_in)
           h1 == CatHeap(mem[w], grad_in, CatAddr(mem[w], grad_in))
           c  == compress(BufferTensor(h1, tb))
       IN  /\ local' = [local EXCEPT ![w] =
                  [buffer |-> tb, my_bits |-> c[1], sign_size |-> c[2]]]
           /\ mem' = [mem EXCEPT ![w] = h1]
           /\ pending' = [pending EXCEPT ![w] =
                  Append(@, [op |-> "all_gather", data |-> c[1]])]
           /\ wire' = [wire EXCEPT ![w] =
                  Append(@, Sent("all_gather", Len(c[1]), IntSize))]
    /\ pc' = [pc EXCEPT ![w] = "gather"]
    /\ UNCHANGED <<arrived, bits_communicated>>
    /\ RedFrame

\* the gather has returned: count the bits, decompress, average, memory
Sign_Average(w) ==
    /\ reducer = "SignReducer"
    /\ pc[w] = "gather"
    /\ arrived[w] # <<>>
    /\ LET l == local[w]
       IN  /\ mem' = [mem EXCEPT ![w] =
                  SignFinish(mem[w], l.buffer, Head(arrived[w]), l.sign_size, n_workers)]
           /\ bits_communicated' = [bits_communicated EXCEPT ![w] =
                  @ + SignBits(l.my_bits)]
    /\ arrived' = [arrived EXCEPT ![w] = Tail(@)]
    /\ pc' = [pc EXCEPT ![w] = "done"]
    /\ UNCHANGED <<local, pending, wire>>
    /\ RedFrame

\* SignReducer(random_seed, device, timer): Reducer.__init__ sets the
\* generator, the device, the timer and the world size; nothing looks at
\* bit2byte
Sign_Construct(w) ==
    /\ reducer = "SignReducer"
    /\ pc[w] = "new"
    /\ self' = [self EXCEPT ![w] = Reducer_init(n_workers, w)]
    /\ pc' = [pc EXCEPT ![w] = "start"]
    /\ UNCHANGED <<mem, local, pending, arrived, wire, bits_communicated>>
    /\ SelfFrame

\* reduce when "import bit2byte" failed: flatgrad is packed,
\* sign_compressor.compress reaches bit2byte.packing and the unbound name
\* raises NameError
Sign_NameError(w) ==
    /\ reducer = "SignReducer"
    /\ pc[w] = "start"
    /\ ~bit2byte
    /\ LET tb == TensorBuffer_init(mem[w], grad_in)
           h1 == CatHeap(mem[w], grad_in, CatAddr(mem[w], grad_in))
       IN  /\ local' = [local EXCEPT ![w] = [buffer |-> tb]]
           /\ mem' = [mem EXCEPT ![w] = h1]
    /\ pc' = [pc EXCEPT ![w] = "error"]
    /\ UNCHANGED <<pending, arrived, wire, bits_communicated>>
    /\ RedFrame

\* the module is imported with or without bit2byte; the arguments of the
\* constructor and of the reduce call that follows
SignInit(W) ==
    \E n \in W, sl \in ShapeLists, b \in BOOLEAN :
    \E g \in [1..n -> GradSets(sl)] :
        /\ CallLayout("SignReducer", n, sl, g)
        /\ compression = <<1, 244>>
        /\ NoInstanceArgs
        /\ self = [w \in 1..n |-> Null]
        /\ bit2byte = b
        /\ pc = [w \in 1..n |-> "new"]

SignNext ==
    \/ \E w \in Workers : Sign_Single(w)
    \/ \E w \in Workers : Sign_Gather(w)
    \/ \E w \in Workers : Sign_Average(w)
    \/ Collective

(***************************************************************************)
(* SignSGDwithMajorityVoteReducer.reduce                                   *)
(***************************************************************************)
\* sum_of_signs.sign(), sum_of_signs being the element-wise sum of the
\* uncompressed bits of every worker
total_sign(bits, sign_size) ==
    LET flatsigns == [v \in 1..Len(bits) |-> uncompress(bits[v], sign_size).data]
    IN  [k \in 1..Len(flatsigns[1]) |->
            RInt(sign(SumUpTo(flatsigns, k, Len(flatsigns))))]

\* reduce.set_out and reduce.memory: flatgrad.buffer = total_sign binds the
\* buffer to a new tensor; every entry of flatgrad is copied to its out;
\* mem.data[:] = -10_000_000
MajorityFinish(h, tb, bits, sign_size) ==
    LET h1  == Append(h, total_sign(bits, sign_size))
        tb1 == [tb EXCEPT !.buffer.addr = Len(h1)]
    IN  Fill(unpack(h1, tb1, grad_out, 1), memory_out, RInt(-10000000))

\* n_workers == 1: bits = [my_bits], nothing is handed to the transport
Majority_Single(w) ==
    /\ reducer = "SignSGDwithMajorityVoteReducer"
    /\ pc[w] = "start"
    /\ bit2byte
    /\ n_workers = 1
    /\ LET tb == TensorBuffer_init(mem[w], grad_in)
           h1 == CatHeap(mem[w], grad_in, CatAddr(mem[w], grad_in))
           c  == compress(BufferTensor(h1, tb))
       IN  /\ local' = [local EXCEPT ![w] =
                  [buffer |-> tb, my_bits |-> c[1], sign_size |-> c[2]]]
           /\ mem' = [mem EXCEPT ![w] = MajorityFinish(h1, tb, <<c[1]>>, c[2])]
           /\ bits_communicated' = [bits_communicated EXCEPT ![w] = @ + SignBits(c[1])]
    /\ pc' = [pc EXCEPT ![w] = "done"]
    /\ UNCHANGED <<pending, arrived, wire>>
    /\ RedFrame

\* n_workers > 1: flatpack, compress, all_gather(bits, my_bits)
Majority_Gather(w) ==
    /\ reducer = "SignSGDwithMajorityVoteReducer"
    /\ pc[w] = "start"
    /\ bit2byte
    /\ n_workers > 1
    /\ LET tb == TensorBuffer_init(mem[w], grad_in)
           h1 == CatHeap(mem[w], grad_in, CatAddr(mem[w], grad_in))
           c  == compress(BufferTensor(h1, tb))
       IN  /\ local' = [local EXCEPT ![w] =
                  [buffer |-> tb, my_bits |-> c[1], sign_size |-> c[2]]]
           /\ mem' = [mem EXCEPT ![w] = h1]
           /\ pending' = [pending EXCEPT ![w] =
                  Append(@, [op |-> "all_gather", data |-> c[1]])]
           /\ wire' = [wire EXCEPT ![w] =
                  Append(@, Sent("all_gather", Len(c[1]), IntSize))]
    /\ pc' = [pc EXCEPT ![w] = "gather"]
    /\ UNCHANGED <<arrived, bits_communicated>>
    /\ RedFrame

\* the gather has returned: count the bits, decompress and sum, take the
\* sign, set the outputs and the memory
Majority_Vote(w) ==
    /\ reducer = "SignSGDwithMajorityVoteReducer"
    /\ pc[w] = "gather"
    /\ arrived[w] # <<>>
    /\ LET l == local[w]
       IN  /\ mem' = [mem EXCEPT ![w] =
                  MajorityFinish(mem[w], l.buffer, Head(arrived[w]), l.sign_size)]
           /\ bits_communicated' = [bits_communicated EXCEPT ![w] =
                  @ + SignBits(l.my_bits)]
    /\ arrived' = [arrived EXCEPT ![w] = Tail(@)]
    /\ pc' = [pc EXCEPT ![w] = "done"]
    /\ UNCHANGED <<local, pending, wire>>
    /\ RedFrame

MajorityNext ==
    \/ \E w \in Workers : Majority_Single(w)
    \/ \E w \in Workers : Majority_Gather(w)
    \/ \E w \in Workers : Majority_Vote(w)
    \/ Collective

(***************************************************************************)
(* Exact_Embed_Reducer.reduce(grad_out): grad_out is a list of (name,      *)
(* tensor); the tensors are reduced in place.                              *)
(***************************************************************************)
\* the names used here that contain 'embed'
EmbedNames == {"embedder.weight"}

\* the indices of the tensors with (without) 'embed' in their name
high_rank_tensors == SelectSeq([i \in 1..Len(names) |-> i],
                               LAMBDA i : names[i] \in EmbedNames)
rank1_tensors == SelectSeq([i \in 1..Len(names) |-> i],
                           LAMBDA i : names[i] \notin EmbedNames)

\* tensor.clone().detach() of every tensor: clone i is at address k + i
Clones(h) == h \o [i \in 1..Len(grad_out) |-> h[grad_out[i].addr]]
CloneRef(i) == [grad_out[i] EXCEPT !.addr = Len(grad_out) + i]

\* tensor.to_sparse().coalesce() of a 2-D tensor: the (row, column) indices
\* of the non-zero elements in row-major order, and their values
to_sparse(data, shape) ==
    LET nz == SelectSeq([x \in 1..Len(data) |-> x], LAMBDA x : data[x].num # 0)
    IN  [indices |-> [j \in 1..Len(nz) |->
                        <<(nz[j] - 1) \div shape[2], (nz[j] - 1) % shape[2]>>],
         values  |-> [j \in 1..Len(nz) |-> data[nz[j]]],
         size    |-> shape]

nnz(matrix) == Len(matrix.values)

\* torch.max(torch.tensor(nnz_buffer))
max_nnz(nnz_buffer) ==
    CHOOSE m \in Range(nnz_buffer) : \A q \in Range(nnz_buffer) : q <= m

\* torch.cat([indices, indices[:, -1:].repeat(1, max_nnz - nnz)], dim=1):
\* with no non-zero element there is no last column to repeat
expanded_indices(matrix, m) ==
    IF nnz(matrix) = 0 THEN <<>>
    ELSE matrix.indices \o [j \in 1..(m - nnz(matrix)) |-> matrix.indices[nnz(matrix)]]

\* torch.cat([values, torch.zeros(max_nnz - nnz)])
expanded_values(matrix, m) ==
    matrix.values \o [j \in 1..(m - nnz(matrix)) |-> RInt(0)]

\* (torch.sparse_coo_tensor(indices, values, size).coalesce() / n).to_dense()
RECURSIVE CooSum(_, _, _, _)
CooSum(indices, values, ix, j) ==
    IF j = 0 THEN RInt(0)
    ELSE RAdd(CooSum(indices, values, ix, j - 1),
              IF indices[j] = ix THEN values[j] ELSE RInt(0))

Densify(indices, values, size, n) ==
    [x \in 1..SeqProd(size) |->
        RDivInt(CooSum(indices, values,
                       <<(x - 1) \div size[2], (x - 1) % size[2]>>,
                       Min(Len(indices), Len(values))), n)]

\* element_size of the int64 tensors of the sparse exchange
LongSize == 8

\* grad_tensors = [(name, tensor, tensor.clone().detach()) ...]
Embed_Clone(w) ==
    /\ reducer = "Exact_Embed_Reducer"
    /\ pc[w] = "start"
    /\ mem' = [mem EXCEPT ![w] = Clones(mem[w])]
    /\ local' = [local EXCEPT ![w] = [hi |-> 1, out |-> <<>>]]
    /\ pc' = [pc EXCEPT ![w] = "loop"]
    /\ UNCHANGED <<pending, arrived, wire, bits_communicated>>
    /\ RedFrame

\* the matrix of the high-rank tensor the loop is at
Matrix(w) ==
    LET t == CloneRef(high_rank_tensors[local[w].hi])
    IN  to_sparse(Val(mem[w], t), t.shape)

\* one pass of the loop with one worker: the three all_gather calls bind
\* out_list[0].data to their input and reach no transport; out is a local
Embed_Local(w) ==
    /\ reducer = "Exact_Embed_Reducer"
    /\ pc[w] = "loop"
    /\ n_workers = 1
    /\ local[w].hi <= Len(high_rank_tensors)
    /\ LET matrix == Matrix(w)
           m      == max_nnz(<<nnz(matrix)>>)
       IN  local' = [local EXCEPT ![w] =
               [hi  |-> @.hi + 1,
                out |-> Append(@.out,
                          Densify(expanded_indices(matrix, m),
                                  expanded_values(matrix, m), matrix.size, n_workers))]]
    /\ UNCHANGED <<mem, pc, pending, arrived, wire, bits_communicated>>
    /\ RedFrame

\* all_gather(nnz_buffer, LongTensor([matrix._nnz()]))
Embed_GatherNnz(w) ==
    /\ reducer = "Exact_Embed_Reducer"
    /\ pc[w] = "loop"
    /\ n_workers > 1
    /\ local[w].hi <= Len(high_rank_tensors)
    /\ pending' = [pending EXCEPT ![w] =
           Append(@, [op |-> "all_gather", data |-> <<nnz(Matrix(w))>>])]
    /\ wire' = [wire EXCEPT ![w] = Append(@, Sent("all_gather", 1, LongSize))]
    /\ pc' = [pc EXCEPT ![w] = "nnz"]
    /\ UNCHANGED <<mem, local, arrived, bits_communicated>>
    /\ RedFrame

\* the nnz of every worker has arrived
GatheredMax(w) == max_nnz([v \in Workers |-> Head(arrived[w])[v][1]])

\* all_gather(indices_buffer, expanded_indices)
Embed_GatherIndices(w) ==
    /\ reducer = "Exact_Embed_Reducer"
    /\ pc[w] = "nnz"
    /\ arrived[w] # <<>>
    /\ Len(expanded_indices(Matrix(w), GatheredMax(w))) = GatheredMax(w)
    /\ local' = [local EXCEPT ![w] =
           [hi |-> @.hi, out |-> @.out, max_nnz |-> GatheredMax(w)]]
    /\ pending' = [pending EXCEPT ![w] =
           Append(@, [op |-> "all_gather",
                      data |-> expanded_indices(Matrix(w), GatheredMax(w))])]
    /\ wire' = [wire EXCEPT ![w] =
           Append(@, Sent("all_gather", 2 * GatheredMax(w), LongSize))]
    /\ arrived' = [arrived EXCEPT ![w] = Tail(@)]
    /\ pc' = [pc EXCEPT ![w] = "indices"]
    /\ UNCHANGED <<mem, bits_communicated>>
    /\ RedFrame

\* a worker without a non-zero element among workers that have some:
\* expanded_indices is 2 x 0, the buffers are 2 x max_nnz, all_gather raises
Embed_IndicesRaise(w) ==
    /\ reducer = "Exact_Embed_Reducer"
    /\ pc[w] = "nnz"
    /\ arrived[w] # <<>>
    /\ Len(expanded_indices(Matrix(w), GatheredMax(w))) # GatheredMax(w)
    /\ arrived' = [arrived EXCEPT ![w] = Tail(@)]
    /\ pc' = [pc EXCEPT ![w] = "error"]
    /\ UNCHANGED <<mem, local, pending, wire, bits_communicated>>
    /\ RedFrame

\* all_gather(values_buffer, expanded_values)
Embed_GatherValues(w) ==
    /\ reducer = "Exact_Embed_Reducer"
    /\ pc[w] = "indices"
    /\ arrived[w] # <<>>
    /\ local' = [local EXCEPT ![w] =
           [hi |-> @.hi, out |-> @.out, max_nnz |-> @.max_nnz,
            indices |-> Cat(Head(arrived[w]))]]
    /\ pending' = [pending EXCEPT ![w] =
           Append(@, [op |-> "all_gather",
                      data |-> expanded_values(Matrix(w), local[w].max_nnz)])]
    /\ wire' = [wire EXCEPT ![w] =
           Append(@, Sent("all_gather", local[w].max_nnz, FloatSize))]
    /\ arrived' = [arrived EXCEPT ![w] = Tail(@)]
    /\ pc' = [pc EXCEPT ![w] = "values"]
    /\ UNCHANGED <<mem, bits_communicated>>
    /\ RedFrame

\* indices = cat(indices_buffer); values = cat(values_buffer); out = (...):
\* the name out is bound to a new dense tensor
Embed_Densify(w) ==
    /\ reducer = "Exact_Embed_Reducer"
    /\ pc[w] = "values"
    /\ arrived[w] # <<>>
    /\ local' = [local EXCEPT ![w] =
           [hi  |-> @.hi + 1,
            out |-> Append(@.out,
                      Densify(@.indices, Cat(Head(arrived[w])),
                              Matrix(w).size, n_workers))]]
    /\ arrived' = [arrived EXCEPT ![w] = Tail(@)]
    /\ pc' = [pc EXCEPT ![w] = "loop"]
    /\ UNCHANGED <<mem, pending, wire, bits_communicated>>
    /\ RedFrame

\* rank1_tensor_list = TensorBuffer(clones of the rank-1 tensors);
\* rank1_tensor_list.all_reduce(async_op=True) calls torch.distributed
\* whatever the number of workers; bits_communicated += its bits
Embed_Rank1(w) ==
    /\ reducer = "Exact_Embed_Reducer"
    /\ pc[w] = "loop"
    /\ local[w].hi > Len(high_rank_tensors)
    /\ LET ts == [j \in 1..Len(rank1_tensors) |-> CloneRef(rank1_tensors[j])]
           tb == TensorBuffer_init(mem[w], ts)
           h1 == CatHeap(mem[w], ts, CatAddr(mem[w], ts))
       IN  /\ mem' = [mem EXCEPT ![w] = h1]
           /\ local' = [local EXCEPT ![w] = [out |-> @.out, buffer |-> tb]]
           /\ pending' = [pending EXCEPT ![w] =
                  Append(@, [op |-> "all_reduce", addr |-> tb.buffer.addr,
                             data |-> h1[tb.buffer.addr]])]
           /\ wire' = [wire EXCEPT ![w] =
                  Append(@, Sent("all_reduce", TB_nelement(tb), TB_element_size(tb)))]
           /\ bits_communicated' = [bits_communicated EXCEPT ![w] = @ + TB_bits(tb)]
    /\ pc' = [pc EXCEPT ![w] = "all_reduce"]
    /\ UNCHANGED arrived
    /\ RedFrame

\* rank1_handle.wait(); buffer /= n_workers; unpack into the callers' tensors
Embed_Unpack(w) ==
    /\ reducer = "Exact_Embed_Reducer"
    /\ pc[w] = "all_reduce"
    /\ arrived[w] # <<>>
    /\ LET tb == local[w].buffer
           h1 == DivideBuffer(mem[w], tb, n_workers)
       IN  mem' = [mem EXCEPT ![w] =
               unpack(h1, tb,
                      [j \in 1..Len(rank1_tensors) |-> grad_out[rank1_tensors[j]]], 1)]
    /\ arrived' = [arrived EXCEPT ![w] = Tail(@)]
    /\ pc' = [pc EXCEPT ![w] = "done"]
    /\ UNCHANGED <<local, pending, wire, bits_communicated>>
    /\ RedFrame

EmbedNext ==
    \/ \E w \in Workers : Embed_Clone(w)
    \/ \E w \in Workers : Embed_Local(w)
    \/ \E w \in Workers : Embed_GatherNnz(w)
    \/ \E w \in Workers : Embed_GatherIndices(w)
    \/ \E w \in Workers : Embed_IndicesRaise(w)
    \/ \E w \in Workers : Embed_GatherValues(w)
    \/ \E w \in Workers : Embed_Densify(w)
    \/ \E w \in Workers : Embed_Rank1(w)
    \/ \E w \in Workers : Embed_Unpack(w)
    \/ Collective

(***************************************************************************)
(* RankKReducer and RankKSparseReducer: one reduce call on every worker.   *)
(* numpy's RandomState is a deterministic generator: a state, a step, and  *)
(* draws that are functions of the state; two generators built from the    *)
(* same seed make the same draws.  The matrices of the model have one row, *)
(* so that min(n, m, rank) is 1 and P has one element.                     *)
(***************************************************************************)
RankKFamily == {"RankKReducer", "RankKSparseReducer"}
\* the reducers whose reduce runs the steps of RankKReducer.reduce
PowerFamily == RankKFamily \cup {"Multi_RankKReducer"}
\* the reducers that keep the factors in p_memory and q_memory
FactorFamily == PowerFamily \cup {"HalfRankKReducer"}

\* self.p_memory = None: a reference to no storage
None == [addr |-> 0, shape |-> <<>>, esize |-> 0]
\* self.p_memory is None
is_None(t) == t.addr = 0

\* the period of the generator
RNGModulus == 16
\* self.rng = np.random.RandomState(random_seed)
RandomState(seed) == seed % RNGModulus
\* the state after one draw
rng_step(s) == (5 * s + 3) % RNGModulus
RECURSIVE rng_after(_, _)
\* the state after k draws
rng_after(s, k) == IF k = 0 THEN s ELSE rng_after(rng_step(s), k - 1)
\* rng.randint(high), rng.choice(high, 1).item(): the value drawn in state s
randint(s, high) == s % high
\* rng.choice(n, size, replace=False): size distinct positions below n
choice(s, n, size) == [j \in 1..size |-> (s + j - 1) % n]
\* torch.manual_seed(seed); torch.randn(len): a function of the seed
randn(seed, len) ==
    [j \in 1..len |->
        RInt(IF (seed + j) % 3 = 0 THEN -1 ELSE (seed + j) % 3)]

\* a * b, the common factors taken out before the products are formed
RMul(a, b) ==
    LET g1 == GCD(Abs(a.num), b.den)
        g2 == GCD(Abs(b.num), a.den)
    IN  RNorm((a.num \div g1) * (b.num \div g2),
              (a.den \div g2) * (b.den \div g1))

RECURSIVE RSum(_)
RSum(s) == IF s = <<>> THEN RInt(0) ELSE RAdd(Head(s), RSum(Tail(s)))

\* torch.matmul of a flat row-major n x k matrix A and a k x r matrix B
matmul(A, n, k, B, r) ==
    [e \in 1..(n * r) |->
        LET i == (e - 1) \div r
            j == (e - 1) % r
        IN  RSum([l \in 1..k |-> RMul(A[i * k + l], B[(l - 1) * r + j + 1])])]

\* matrix.t() of a flat row-major n x m matrix
transpose(A, n, m) ==
    [e \in 1..(n * m) |->
        LET i == (e - 1) \div n
            j == (e - 1) % n
        IN  A[j * m + i + 1]]

\* a / b for b # 0
RDiv(a, b) ==
    RMul(a, IF b.num > 0 THEN [num |-> b.den, den |-> b.num]
            ELSE [num |-> -b.den, den |-> -b.num])

RAbs(a) == [num |-> Abs(a.num), den |-> a.den]
\* a <= b
RLeq(a, b) == RSub(b, a).num >= 0

\* the square root of a rational whose numerator and denominator are squares
ISqrt(k) == CHOOSE r \in 0..k : r * r = k
RSqrt(a) == [num |-> ISqrt(a.num), den |-> ISqrt(a.den)]

\* matrix[:, i : i + 1] of a flat row-major n x m matrix (i from 1)
column(A, n, m, i) == [k \in 1..n |-> A[(k - 1) * m + i]]

RECURSIVE RMaxAbs(_)
RMaxAbs(col) ==
    IF col = <<>> THEN RInt(0)
    ELSE LET r == RMaxAbs(Tail(col))
         IN  IF RLeq(RAbs(Head(col)), r) THEN r ELSE RAbs(Head(col))

\* torch.sqrt(torch.sum(col ** 2)); the column is scaled by its largest
\* magnitude before it is squared, which leaves the value as it is and
\* keeps the integers of the evaluation small
l2norm(col) ==
    LET s == RMaxAbs(col)
    IN  IF s.num = 0 THEN RInt(0)
        ELSE RMul(s, RSqrt(RSum([k \in 1..Len(col) |->
                                    RMul(RDiv(col[k], s), RDiv(col[k], s))])))

\* eps = torch.tensor(1e-8)
eps == RNorm(1, 100000000)

\* norm + eps in float32: the sum rounds to norm once eps is below half the
\* spacing of the floats at norm, that is from norm = 1/4 on
plus_eps(norm) == IF RLeq(RNorm(1, 4), norm) THEN norm ELSE RAdd(norm, eps)

\* one pass of the loop of orthogonalize, for column i (from 1):
\* col /= norm + eps; rest -= torch.sum(col * rest, dim=0) * col
orthogonalize_column(A, n, m, i) ==
    LET col    == column(A, n, m, i)
        d      == plus_eps(l2norm(col))
        ncol   == [k \in 1..n |-> RDiv(col[k], d)]
        dot(j) == RSum([k \in 1..n |-> RMul(ncol[k], A[(k - 1) * m + j])])
    IN  [e \in 1..(n * m) |->
            LET k == ((e - 1) \div m) + 1
                j == ((e - 1) % m) + 1
            IN  IF j = i THEN ncol[k]
                ELSE IF j > i THEN RSub(A[e], RMul(dot(j), ncol[k]))
                ELSE A[e]]

RECURSIVE orthogonalize_from(_, _, _, _)
orthogonalize_from(A, n, m, i) ==
    IF i > m THEN A
    ELSE orthogonalize_from(orthogonalize_column(A, n, m, i), n, m, i + 1)

\* orthogonalize(matrix) on a flat row-major n x m matrix
orthogonalize(A, n, m) == orthogonalize_from(A, n, m, 1)

ndimension(t) == Len(t.shape)

\* the lists rank1 and high_rank written in RankKReducer.reduce
RankK_rank1 == [i \in 1..45 |-> i \notin {21, 43}]
RankK_high_rank == [i \in 1..45 |-> i \in {21, 43}]

Positions(k) == [i \in 1..k |-> i]

\* high_rank = 32, low_rank = 32 and the list custom_rank written in
\* Multi_RankKReducer.reduce
custom_rank == [i \in 1..45 |-> 32]

\* the positions of the gradient list taken as rank1_tensors
rank1_of(r, ts) ==
    IF r = "RankKReducer"
    THEN SelectSeq(Positions(Min(Len(ts), Len(RankK_rank1))),
                   LAMBDA i : RankK_rank1[i])
    ELSE IF r = "RankKSparseReducer"
    THEN SelectSeq(Positions(Len(ts)),
                   LAMBDA i : ndimension(ts[i]) <= 1 \/ ts[i].shape[1] = 32317)
    ELSE SelectSeq(Positions(Len(ts)), LAMBDA i : ndimension(ts[i]) <= 1)

\* the positions of the gradient list taken as high_rank_tensors
high_rank_of(r, ts) ==
    IF r = "RankKReducer"
    THEN SelectSeq(Positions(Min(Len(ts), Len(RankK_high_rank))),
                   LAMBDA i : RankK_high_rank[i])
    ELSE IF r = "RankKSparseReducer"
    THEN SelectSeq(Positions(Len(ts)),
                   LAMBDA i : ndimension(ts[i]) > 1 /\ ts[i].shape[1] # 32317)
    ELSE IF r = "Multi_RankKReducer"
    THEN SelectSeq(Positions(Min(Len(ts), Len(custom_rank))),
                   LAMBDA i : ndimension(ts[i]) > 1)
    ELSE SelectSeq(Positions(Len(ts)), LAMBDA i : ndimension(ts[i]) > 1)

\* matrix = tensor.view(tensor.shape[0], -1); n, m = matrix.shape
rows(t) == t.shape[1]
cols(t) == nelement(t) \div t.shape[1]

\* the position in grad_in of one of its tensors
position(t) == CHOOSE i \in 1..Len(grad_in) : grad_in[i].addr = t.addr

\* rank = min(n, m, self.rank); in Multi_RankKReducer
\* rank = min(n, m, tensor_rank) with the entry of custom_rank zipped with
\* the tensor
tensor_rank(t) ==
    IF reducer = "Multi_RankKReducer"
    THEN Min(rows(t), Min(cols(t), custom_rank[position(t)]))
    ELSE Min(rows(t), Min(cols(t), rank))

\* ps (side = "p") or qs (side = "q"): consecutive views of the flat memory
\* at address a, one per high-rank tensor
FactorViews(ts, a, side) ==
    LET size(j) == (IF side = "p" THEN rows(ts[j]) ELSE cols(ts[j]))
                       * tensor_rank(ts[j])
    IN  [j \in 1..Len(ts) |->
            [addr  |-> a,
             start |-> SeqSum([l \in 1..(j - 1) |-> size(l)]),
             end   |-> SeqSum([l \in 1..j |-> size(l)]),
             rank  |-> tensor_rank(ts[j])]]

\* p_total_size, q_total_size
factor_total_size(ts, side) ==
    SeqSum([j \in 1..Len(ts) |->
               (IF side = "p" THEN rows(ts[j]) ELSE cols(ts[j]))
                   * tensor_rank(ts[j])])

\* what a view holds
ViewVal(h, v) == Segment(h[v.addr], v.start, v.end)

\* view[:] = datas[j] for every view
RECURSIVE WriteViews(_, _, _, _)
WriteViews(h, views, datas, j) ==
    IF j > Len(views) THEN h
    ELSE WriteViews([h EXCEPT ![views[j].addr] =
                        WriteSegment(@, views[j].start, views[j].end, datas[j])],
                    views, datas, j + 1)

\* tensor[:] = datas[j] for every tensor
RECURSIVE WriteTensors(_, _, _, _)
WriteTensors(h, ts, datas, j) ==
    IF j > Len(ts) THEN h
    ELSE WriteTensors([h EXCEPT ![ts[j].addr] = datas[j]], ts, datas, j + 1)

\* int(self.sparsity * tensor.nelement())
sparse_size(t) == (sparsity[1] * nelement(t)) \div sparsity[2]

\* self.random_indices_list: ten lists, each with one draw of positions per
\* high-rank tensor, drawn one after the other from the state s
random_indices_list(s, ts) ==
    [i \in 1..10 |->
        [j \in 1..Len(ts) |->
            choice(rng_after(s, (i - 1) * Len(ts) + j - 1),
                   nelement(ts[j]), sparse_size(ts[j]))]]

\* residual.view(-1)[indices] = tensor.view(-1)[indices]
take(data, indices) ==
    [e \in 1..Len(data) |->
        IF \E x \in 1..Len(indices) : indices[x] = e - 1
        THEN data[e] ELSE RInt(0)]

\* tensor.view(-1)[indices] = 0.0
zero_at(data, indices) ==
    [e \in 1..Len(data) |->
        IF \E x \in 1..Len(indices) : indices[x] = e - 1
        THEN RInt(0) ELSE data[e]]

\* the gradient lists of the low-rank reducers: an embedding matrix and a
\* bias, or twenty biases followed by a matrix
RankKShapeLists ==
    { <<[name |-> "embedder.weight", shape |-> <<1, 2>>],
        [name |-> "bias", shape |-> <<1>>]>>,
      [i \in 1..21 |->
          IF i = 21 THEN [name |-> "weight", shape |-> <<1, 2>>]
                    ELSE [name |-> "bias", shape |-> <<1>>]] }

\* the gradient sets of the shapes sl: the last three elements are one of
\* the triples F; the others hold 1
RankKGradSets(sl, F) ==
    LET total == SeqSum([i \in 1..Len(sl) |-> SeqProd(sl[i].shape)])
        first(i) == SeqSum([j \in 1..(i - 1) |-> SeqProd(sl[j].shape)])
        val(flat, e) == IF e > total - 3 THEN flat[e - (total - 3)] ELSE 1
    IN  {[i \in 1..Len(sl) |->
            [j \in 1..SeqProd(sl[i].shape) |-> RInt(val(flat, first(i) + j))]] :
         flat \in F}

\* a rotation of (-1, 0, 2) or all zero
Triples == {<<-1, 0, 2>>, <<0, 2, -1>>, <<2, -1, 0>>, <<0, 0, 0>>}

\* the constructor arguments rank and sparsity
RankKConfigs(r) ==
    IF r = "RankKSparseReducer"
    THEN {<<1, <<1, 10>>>>, <<1, <<1, 2>>>>, <<2, <<1, 2>>>>}
    ELSE {<<1, <<1, 10>>>>, <<2, <<1, 10>>>>}

Seeds == {1, 6}

\* RankKReducer.__init__ and RankKSparseReducer.__init__ on worker w:
\* super().__init__ sets the generator, n_workers and rank, then
\* self.rank = rank stores the constructor argument in the same attribute
RankK_init(n, w, seed, rank_arg) ==
    LET base == Reducer_init(n, w)
    IN  [n_workers |-> base.n_workers, rank |-> rank_arg,
         rng |-> RandomState(seed), p_memory |-> None, q_memory |-> None,
         initial |-> 0, random_indices_list |-> <<>>]

\* the constructor on every worker of a world of n (n in W), with the same
\* arguments on every worker (reuse_query in Q), and the arguments of the
\* first reduce call (shapes in SL, values in F)
RankKInit(W, SL, Q, F) ==
    \E r \in RankKFamily, n \in W, sl \in SL, q \in Q :
    \E c \in RankKConfigs(r), seed \in Seeds,
       g \in [1..n -> RankKGradSets(sl, F)] :
        /\ CallLayout(r, n, sl, g)
        /\ compression = <<1, 244>>
        /\ rank = c[1]
        /\ sparsity = c[2]
        /\ reuse_query = q
        /\ random_seed = seed
        /\ bit2byte = TRUE
        /\ self = [w \in 1..n |-> RankK_init(n, w, seed, c[1])]
        /\ pc = [w \in 1..n |-> "start"]

\* the tensors of the list at the positions ps
At(list, ps) == [j \in 1..Len(ps) |-> list[ps[j]]]

prepare_q_SkipZero(h, s, ts, qs, draw) ==
    LET nz == SelectSeq(Positions(Len(ts)),
                        LAMBDA j : \E e \in 1..nelement(ts[j]) :
                                       Val(h, ts[j])[e] # RInt(0))
        seeds == [j \in 1..Len(nz) |-> randint(rng_after(s, j - 1), 1000000000)]
    IN  [rng   |-> rng_after(s, Len(nz)),
         seeds |-> seeds,
         h     |-> WriteViews(h, At(qs, nz),
                       [j \in 1..Len(nz) |->
                           randn(seeds[j], qs[nz[j]].end - qs[nz[j]].start)], 1)]
prepare_q_Fresh(h, s, ts, qs, draw) ==
    LET seeds == [j \in 1..Len(ts) |-> randint(rng_after(s, j - 1), 1000000000)]
    IN  [rng   |-> rng_after(s, Len(ts)),
         seeds |-> seeds,
         h     |-> WriteViews(h, qs,
                       [j \in 1..Len(ts) |->
                           randn(seeds[j], qs[j].end - qs[j].start)], 1)]
\* reduce.prepare.q: for every high-rank tensor, set_random(q) unless the
\* query is reused (draw is false); set_random draws the seed of
\* torch.manual_seed from self.rng and fills q with torch.randn
prepare_q(h, s, ts, qs, draw) ==
    IF draw
    THEN LET seeds == [j \in 1..Len(ts) |->
                          randint(rng_after(s, j - 1), 1000000000)]
         IN  [rng   |-> rng_after(s, Len(ts)),
              seeds |-> seeds,
              h     |-> WriteViews(h, qs,
                            [j \in 1..Len(ts) |->
                                randn(seeds[j], qs[j].end - qs[j].start)], 1)]
    ELSE [rng |-> s, seeds |-> <<>>, h |-> h]

\* reduce up to the launch of all_reduce(self.p_memory): the split of the
\* gradient list, RankKSparseReducer's move of the drawn positions into the
\* residuals, the allocation of the factor memory on the first call, the
\* random Q and P = M Q
RankK_ComputeP(w) ==
    /\ reducer \in PowerFamily
    /\ pc[w] = "start"
    /\ LET me      == self[w]
           sparse  == reducer = "RankKSparseReducer"
           hr      == high_rank_of(reducer, grad_in)
           ts      == At(grad_in, hr)
           H       == Len(ts)
           first   == sparse /\ me.initial = 0
           lists   == IF first THEN random_indices_list(me.rng, ts)
                      ELSE me.random_indices_list
           s1      == IF first THEN rng_after(me.rng, 10 * H) ELSE me.rng
           picked  == randint(s1, 10)
           s2      == IF sparse THEN rng_step(s1) ELSE s1
           indices == IF sparse THEN lists[picked + 1]
                      ELSE [j \in 1..H |-> <<>>]
           residuals == [j \in 1..H |-> take(Val(mem[w], ts[j]), indices[j])]
           h1      == WriteTensors(mem[w], ts,
                          [j \in 1..H |-> zero_at(Val(mem[w], ts[j]), indices[j])], 1)
           memory_is_uninitialized == is_None(me.p_memory)
           p_total_size == factor_total_size(ts, "p")
           q_total_size == factor_total_size(ts, "q")
           p_memory == IF memory_is_uninitialized
                       THEN [addr |-> Len(h1) + 1, shape |-> <<p_total_size>>,
                             esize |-> FloatSize]
                       ELSE me.p_memory
           q_memory == IF memory_is_uninitialized
                       THEN [addr |-> Len(h1) + 2, shape |-> <<q_total_size>>,
                             esize |-> FloatSize]
                       ELSE me.q_memory
           h2      == IF memory_is_uninitialized
                      THEN h1 \o <<[e \in 1..p_total_size |-> StaleMem],
                                   [e \in 1..q_total_size |-> StaleMem]>>
                      ELSE h1
           ps      == FactorViews(ts, p_memory.addr, "p")
           qs      == FactorViews(ts, q_memory.addr, "q")
           prepared == prepare_q(h2, s2, ts, qs,
                                 ~(reuse_query /\ ~memory_is_uninitialized))
           seeds   == prepared.seeds
           s3      == prepared.rng
           h3      == prepared.h
           h4      == WriteViews(h3, ps,
                          [j \in 1..H |->
                              matmul(Val(h3, ts[j]), rows(ts[j]), cols(ts[j]),
                                     ViewVal(h3, qs[j]), qs[j].rank)], 1)
       IN  /\ mem' = [mem EXCEPT ![w] = h4]
           /\ self' = [self EXCEPT ![w] =
                  [me EXCEPT !.rng = s3, !.p_memory = p_memory,
                             !.q_memory = q_memory,
                             !.initial = IF sparse THEN 1 ELSE me.initial,
                             !.random_indices_list = lists]]
           /\ local' = [local EXCEPT ![w] =
                  [high_rank |-> hr, rank1 |-> rank1_of(reducer, grad_in),
                   ps |-> ps, qs |-> qs, residuals |-> residuals,
                   choices |-> [picked  |-> IF sparse THEN picked ELSE -1,
                                indices |-> indices, seeds |-> seeds],
                   buffer |-> Null, launched |-> 0, waited |-> 0]]
           /\ IF n_workers > 1
              THEN /\ pending' = [pending EXCEPT ![w] =
                          Append(@, [op |-> "all_reduce", addr |-> p_memory.addr,
                                     data |-> h4[p_memory.addr]])]
                   /\ wire' = [wire EXCEPT ![w] =
                          Append(@, Sent("all_reduce", p_total_size, FloatSize))]
              ELSE UNCHANGED <<pending, wire>>
           /\ bits_communicated' = [bits_communicated EXCEPT ![w] =
                                       @ + n_bits(p_memory)]
    /\ pc' = [pc EXCEPT ![w] = "reduce.p"]
    /\ UNCHANGED arrived
    /\ SelfFrame

\* all_reduce(self.p_memory) has returned; rank1_tensor_list =
\* TensorBuffer(rank-1 tensors of grad_in); rank1_handle =
\* rank1_tensor_list.all_reduce(async_op=True), launched on torch.distributed
\* whatever the number of workers
RankK_Rank1(w) ==
    /\ reducer \in PowerFamily
    /\ pc[w] = "reduce.p"
    /\ n_workers = 1 \/ arrived[w] # <<>>
    /\ LET ts == At(grad_in, local[w].rank1)
           tb == TensorBuffer_init(mem[w], ts)
           h1 == CatHeap(mem[w], ts, CatAddr(mem[w], ts))
       IN  /\ mem' = [mem EXCEPT ![w] = h1]
           /\ local' = [local EXCEPT ![w] =
                  [@ EXCEPT !.buffer = tb, !.launched = @ + 1]]
           /\ pending' = [pending EXCEPT ![w] =
                  Append(@, [op |-> "all_reduce", addr |-> tb.buffer.addr,
                             data |-> h1[tb.buffer.addr]])]
           /\ wire' = [wire EXCEPT ![w] =
                  Append(@, Sent("all_reduce", TB_nelement(tb), TB_element_size(tb)))]
           /\ bits_communicated' = [bits_communicated EXCEPT ![w] = @ + TB_bits(tb)]
    /\ arrived' = [arrived EXCEPT ![w] = IF n_workers = 1 THEN @ ELSE Tail(@)]
    /\ pc' = [pc EXCEPT ![w] = "normalize.p"]
    /\ UNCHANGED self
    /\ SelfFrame

\* orthogonalize(p) and Q = M^T P for every high-rank tensor, then the
\* launch of all_reduce(self.q_memory)
RankK_ComputeQ(w) ==
    /\ reducer \in PowerFamily
    /\ pc[w] = "normalize.p"
    /\ LET ts == At(grad_in, local[w].high_rank)
           H  == Len(ts)
           ps == local[w].ps
           qs == local[w].qs
           h1 == WriteViews(mem[w], ps,
                     [j \in 1..H |->
                         orthogonalize(ViewVal(mem[w], ps[j]),
                                       rows(ts[j]), ps[j].rank)], 1)
           h2 == WriteViews(h1, qs,
                     [j \in 1..H |->
                         matmul(transpose(Val(h1, ts[j]), rows(ts[j]), cols(ts[j])),
                                cols(ts[j]), rows(ts[j]),
                                ViewVal(h1, ps[j]), ps[j].rank)], 1)
           q_memory == self[w].q_memory
       IN  /\ mem' = [mem EXCEPT ![w] = h2]
           /\ IF n_workers > 1
              THEN /\ pending' = [pending EXCEPT ![w] =
                          Append(@, [op |-> "all_reduce", addr |-> q_memory.addr,
                                     data |-> h2[q_memory.addr]])]
                   /\ wire' = [wire EXCEPT ![w] =
                          Append(@, Sent("all_reduce", nelement(q_memory), FloatSize))]
              ELSE UNCHANGED <<pending, wire>>
           /\ bits_communicated' = [bits_communicated EXCEPT ![w] =
                                       @ + n_bits(q_memory)]
    /\ pc' = [pc EXCEPT ![w] = "reduce.q"]
    /\ UNCHANGED <<self, local, arrived>>
    /\ SelfFrame

\* all_reduce(self.q_memory) has returned: every collective this worker
\* launched is complete
ReducedQ(w) == n_workers = 1 \/ (pending[w] = <<>> /\ Len(arrived[w]) = 2)

\* self.q_memory /= n_workers; out = P Q^T and mem = tensor - out
\* (+ residual in RankKSparseReducer) for every high-rank tensor
RankK_OuterProd(w) ==
    /\ reducer \in PowerFamily
    /\ pc[w] = "reduce.q"
    /\ ReducedQ(w)
    /\ LET hr  == local[w].high_rank
           ts  == At(grad_in, hr)
           H   == Len(ts)
           ps  == local[w].ps
           qs  == local[w].qs
           q_memory == self[w].q_memory
           h1  == [mem[w] EXCEPT ![q_memory.addr] =
                      [e \in 1..Len(@) |-> RDivInt(@[e], n_workers)]]
           out == [j \in 1..H |->
                      matmul(ViewVal(h1, ps[j]), rows(ts[j]), ps[j].rank,
                             transpose(ViewVal(h1, qs[j]), cols(ts[j]), qs[j].rank),
                             cols(ts[j]))]
           h2  == WriteTensors(h1, At(grad_out, hr), out, 1)
           residual(j) == local[w].residuals[j]
           h3  == WriteTensors(h2, At(memory_out, hr),
                      [j \in 1..H |->
                          [e \in 1..nelement(ts[j]) |->
                              IF reducer = "RankKSparseReducer"
                              THEN RAdd(RSub(Val(h2, ts[j])[e], out[j][e]),
                                        residual(j)[e])
                              ELSE RSub(Val(h2, ts[j])[e], out[j][e])]], 1)
       IN  mem' = [mem EXCEPT ![w] = h3]
    /\ arrived' = [arrived EXCEPT ![w] =
           IF n_workers = 1 THEN @ ELSE SubSeq(@, 1, Len(@) - 1)]
    /\ pc' = [pc EXCEPT ![w] = "rank1.unpack"]
    /\ UNCHANGED <<self, local, pending, wire, bits_communicated>>
    /\ SelfFrame

\* rank1_handle.wait() returns once the all_reduce of the rank-1 buffer is
\* complete
RankK_Wait(w) ==
    /\ reducer \in FactorFamily
    /\ pc[w] = "rank1.unpack"
    /\ arrived[w] # <<>>
    /\ arrived' = [arrived EXCEPT ![w] = Tail(@)]
    /\ local' = [local EXCEPT ![w] = [@ EXCEPT !.waited = @ + 1]]
    /\ pc' = [pc EXCEPT ![w] = "waited"]
    /\ UNCHANGED <<self, mem, pending, wire, bits_communicated>>
    /\ SelfFrame

\* rank1_tensor_list.buffer /= n_workers; unpack into the rank-1 tensors of
\* grad_out; return bits_communicated
RankK_Unpack(w) ==
    /\ reducer \in FactorFamily
    /\ pc[w] = "waited"
    /\ LET tb == local[w].buffer
           h1 == DivideBuffer(mem[w], tb, n_workers)
       IN  mem' = [mem EXCEPT ![w] =
               unpack(h1, tb, At(grad_out, local[w].rank1), 1)]
    /\ pc' = [pc EXCEPT ![w] = "done"]
    /\ UNCHANGED <<self, local, pending, arrived, wire, bits_communicated>>
    /\ SelfFrame

\* the gradient sets of the shapes sl in which every tensor holds one value
\* of (-1, 0, 2) in its first element and 0 elsewhere
AxisGradSets(sl) ==
    {[i \in 1..Len(sl) |->
         [j \in 1..SeqProd(sl[i].shape) |-> RInt(IF j = 1 THEN a ELSE 0)]] :
     a \in {-1, 0, 2}}

\* the gradient sets of a later call, over the shapes of the first
CallGradSets ==
    LET sl == [i \in 1..Len(names) |->
                  [name |-> names[i], shape |-> grad_in[i].shape]]
    IN  IF reducer \in RankKFamily THEN RankKGradSets(sl, Triples)
        ELSE AxisGradSets(sl)

\* the caller makes the next reduce call on the same reducer instance, with
\* a new gradient set in grad_in and the same lists grad_out and memory_out
RankK_Call(w) ==
    /\ reducer \in FactorFamily
    /\ pc[w] = "done"
    /\ n_calls[w] + 1 < MaxCalls
    /\ \E g \in CallGradSets :
           /\ g0' = [g0 EXCEPT ![w] = g]
           /\ mem' = [mem EXCEPT ![w] = WriteTensors(@, grad_in, g, 1)]
    /\ n_calls' = [n_calls EXCEPT ![w] = @ + 1]
    /\ local' = [local EXCEPT ![w] = <<>>]
    /\ bits_communicated' = [bits_communicated EXCEPT ![w] = 0]
    /\ pc' = [pc EXCEPT ![w] = "start"]
    /\ UNCHANGED <<reducer, n_workers, compression, names, grad_in, grad_out,
                   memory_out, rank, reuse_query, sparsity, random_seed,
                   bit2byte, self, pending, arrived, wire>>
    /\ UNCHANGED <<codecVars, tbVars, atomo, ortho, omni>>

RankKNext ==
    \/ \E w \in Workers : RankK_ComputeP(w)
    \/ \E w \in Workers : RankK_Rank1(w)
    \/ \E w \in Workers : RankK_ComputeQ(w)
    \/ \E w \in Workers : RankK_OuterProd(w)
    \/ \E w \in Workers : RankK_Wait(w)
    \/ \E w \in Workers : RankK_Unpack(w)
    \/ Collective

(***************************************************************************)
(* HalfRankKReducer.reduce: the rank-1 tensors are packed and their        *)
(* all_reduce launched first; then one of the two factors is computed from *)
(* the other and reduced, by turns from one call to the next.              *)
(***************************************************************************)
\* HalfRankKReducer.__init__ on worker w
Half_init(n, w, seed, rank_arg) ==
    LET base == Reducer_init(n, w)
    IN  [n_workers |-> base.n_workers, rank |-> rank_arg,
         rng |-> RandomState(seed), p_memory |-> None, q_memory |-> None,
         next_operation |-> "p"]

\* the constructor of reducer r on worker w; Multi_RankKReducer.__init__
\* sets what RankKReducer.__init__ sets
instance_init(r, n, w, seed, rank_arg) ==
    IF r = "HalfRankKReducer" THEN Half_init(n, w, seed, rank_arg)
    ELSE RankK_init(n, w, seed, rank_arg)

\* gradient lists with a matrix of more than one row
FactorShapeLists(r) ==
    IF r = "HalfRankKReducer"
    THEN { <<[name |-> "weight", shape |-> <<2, 1>>],
             [name |-> "bias", shape |-> <<1>>]>>,
           <<[name |-> "bias", shape |-> <<1>>],
             [name |-> "weight", shape |-> <<1, 1>>]>> }
    ELSE { <<[name |-> "bias", shape |-> <<1>>],
             [name |-> "weight", shape |-> <<2, 2>>]>>,
           <<[name |-> "weight", shape |-> <<2, 1>>],
             [name |-> "bias", shape |-> <<1>>]>> }

\* the constructor of a reducer of R on every worker of a world of n (n in
\* W), with the same arguments on every worker, and the arguments of the
\* first reduce call
FactorInit(R, W) ==
    \E r \in R, n \in W, c \in 1..2, seed \in {1} :
    \E sl \in FactorShapeLists(r) : \E g \in [1..n -> AxisGradSets(sl)] :
        /\ CallLayout(r, n, sl, g)
        /\ compression = <<1, 244>>
        /\ rank = c
        /\ sparsity = <<1, 10>>
        /\ reuse_query = FALSE
        /\ random_seed = seed
        /\ bit2byte = TRUE
        /\ self = [w \in 1..n |-> instance_init(r, n, w, seed, c)]
        /\ pc = [w \in 1..n |-> "start"]

\* torch.einsum("nr, mr -> nm", (p, q)) of a flat n x r matrix p and a flat
\* m x r matrix q
einsum_nr_mr(p, n, q, m, r) == matmul(p, n, r, transpose(q, m, r), m)

\* mem.data[:] = matrix - einsum(p, q) for every high-rank tensor
fill_memory(h, ts, ps, qs, mems) ==
    WriteTensors(h, mems,
        [j \in 1..Len(ts) |->
            LET approx == einsum_nr_mr(ViewVal(h, ps[j]), rows(ts[j]),
                                       ViewVal(h, qs[j]), cols(ts[j]),
                                       ps[j].rank)
            IN  [e \in 1..nelement(ts[j]) |->
                    RSub(Val(h, ts[j])[e], approx[e])]], 1)

\* reduce.rank1.pack and reduce.rank1.all_reduce: rank1_tensor_list =
\* TensorBuffer(rank-1 tensors of grad_in), all_reduce(async_op=True)
Half_Rank1(w) ==
    /\ reducer = "HalfRankKReducer"
    /\ pc[w] = "start"
    /\ LET r1 == rank1_of(reducer, grad_in)
           ts == At(grad_in, r1)
           tb == TensorBuffer_init(mem[w], ts)
           h1 == CatHeap(mem[w], ts, CatAddr(mem[w], ts))
       IN  /\ mem' = [mem EXCEPT ![w] = h1]
           /\ local' = [local EXCEPT ![w] =
                  [high_rank |-> high_rank_of(reducer, grad_in), rank1 |-> r1,
                   ps |-> <<>>, qs |-> <<>>, operation |-> Null,
                   buffer |-> tb, launched |-> 1, waited |-> 0]]
           /\ pending' = [pending EXCEPT ![w] =
                  Append(@, [op |-> "all_reduce", addr |-> tb.buffer.addr,
                             data |-> h1[tb.buffer.addr]])]
           /\ wire' = [wire EXCEPT ![w] =
                  Append(@, Sent("all_reduce", TB_nelement(tb), TB_element_size(tb)))]
           /\ bits_communicated' = [bits_communicated EXCEPT ![w] = @ + TB_bits(tb)]
    /\ pc' = [pc EXCEPT ![w] = "build_index"]
    /\ UNCHANGED <<self, arrived>>
    /\ SelfFrame

\* set_random(q) for every q: the seed of torch.manual_seed drawn from
\* self.rng, torch.randn, orthogonalize
Half_set_random(h, s, ts, qs) ==
    LET seeds == [j \in 1..Len(ts) |-> randint(rng_after(s, j - 1), 1000000000)]
    IN  [rng |-> rng_after(s, Len(ts)),
         h   |-> WriteViews(h, qs,
                     [j \in 1..Len(ts) |->
                         orthogonalize(randn(seeds[j], qs[j].end - qs[j].start),
                                       cols(ts[j]), qs[j].rank)], 1)]

\* orthogonalize(v) for every view v, of the given numbers of rows
orthogonalize_views(h, views, nrows) ==
    WriteViews(h, views,
        [j \in 1..Len(views) |->
            orthogonalize(ViewVal(h, views[j]), nrows[j], views[j].rank)], 1)

next_operation_Stuck(op) == op
\* self.next_operation = "q" in the branch for "p", "p" in the branch for "q"
next_operation_after(op) == IF op = "p" THEN "q" ELSE "p"

\* the allocation of the factor memory on the first call, reduce.build_index
\* and the branch for self.next_operation up to the launch of the all_reduce
\* of the factor computed in this call
Half_Factor(w) ==
    /\ reducer = "HalfRankKReducer"
    /\ pc[w] = "build_index"
    /\ LET me  == self[w]
           ts  == At(grad_in, local[w].high_rank)
           H   == Len(ts)
           memory_is_uninitialized == is_None(me.p_memory)
           p_total_size == factor_total_size(ts, "p")
           q_total_size == factor_total_size(ts, "q")
           p_memory == IF memory_is_uninitialized
                       THEN [addr |-> Len(mem[w]) + 1, shape |-> <<p_total_size>>,
                             esize |-> FloatSize]
                       ELSE me.p_memory
           q_memory == IF memory_is_uninitialized
                       THEN [addr |-> Len(mem[w]) + 2, shape |-> <<q_total_size>>,
                             esize |-> FloatSize]
                       ELSE me.q_memory
           h1  == IF memory_is_uninitialized
                  THEN mem[w] \o <<[e \in 1..p_total_size |-> StaleMem],
                                   [e \in 1..q_total_size |-> StaleMem]>>
                  ELSE mem[w]
           ps  == FactorViews(ts, p_memory.addr, "p")
           qs  == FactorViews(ts, q_memory.addr, "q")
           op  == me.next_operation
           drawn == Half_set_random(h1, me.rng, ts, qs)
           \* reduce.normalize.q, reduce.normalize.p
           h2  == IF op = "p"
                  THEN IF memory_is_uninitialized THEN drawn.h
                       ELSE orthogonalize_views(h1, qs, [j \in 1..H |-> cols(ts[j])])
                  ELSE orthogonalize_views(h1, ps, [j \in 1..H |-> rows(ts[j])])
           \* reduce.compute.p, reduce.compute.q
           h3  == IF op = "p"
                  THEN WriteViews(h2, ps,
                           [j \in 1..H |->
                               matmul(Val(h2, ts[j]), rows(ts[j]), cols(ts[j]),
                                      ViewVal(h2, qs[j]), qs[j].rank)], 1)
                  ELSE WriteViews(h2, qs,
                           [j \in 1..H |->
                               matmul(transpose(Val(h2, ts[j]), rows(ts[j]),
                                                cols(ts[j])),
                                      cols(ts[j]), rows(ts[j]),
                                      ViewVal(h2, ps[j]), ps[j].rank)], 1)
           h4  == fill_memory(h3, ts, ps, qs, At(memory_out, local[w].high_rank))
           sent == IF op = "p" THEN p_memory ELSE q_memory
       IN  /\ mem' = [mem EXCEPT ![w] = h4]
           /\ self' = [self EXCEPT ![w] =
                  [me EXCEPT !.rng = IF op = "p" /\ memory_is_uninitialized
                                     THEN drawn.rng ELSE me.rng,
                             !.p_memory = p_memory, !.q_memory = q_memory,
                             !.next_operation = next_operation_after(op)]]
           /\ local' = [local EXCEPT ![w] =
                  [@ EXCEPT !.ps = ps, !.qs = qs, !.operation = op]]
           /\ IF n_workers > 1
              THEN /\ pending' = [pending EXCEPT ![w] =
                          Append(@, [op |-> "all_reduce", addr |-> sent.addr,
                                     data |-> h4[sent.addr]])]
                   /\ wire' = [wire EXCEPT ![w] =
                          Append(@, Sent("all_reduce", nelement(sent), FloatSize))]
              ELSE UNCHANGED <<pending, wire>>
           /\ bits_communicated' = [bits_communicated EXCEPT ![w] =
                                       @ + n_bits(sent)]
           /\ pc' = [pc EXCEPT ![w] = IF op = "p" THEN "reduce.p" ELSE "reduce.q"]
    /\ UNCHANGED arrived
    /\ SelfFrame

\* the all_reduce of the factor has returned: the factor is divided by
\* n_workers; reduce.outerprod writes einsum(p, q) into the high-rank
\* tensors of grad_out
Half_OuterProd(w) ==
    /\ reducer = "HalfRankKReducer"
    /\ pc[w] \in {"reduce.p", "reduce.q"}
    /\ n_workers = 1 \/ (pending[w] = <<>> /\ Len(arrived[w]) = 2)
    /\ LET hr  == local[w].high_rank
           ts  == At(grad_in, hr)
           ps  == local[w].ps
           qs  == local[w].qs
           reduced == IF pc[w] = "reduce.p" THEN self[w].p_memory
                      ELSE self[w].q_memory
           h1  == [mem[w] EXCEPT ![reduced.addr] =
                      [e \in 1..Len(@) |-> RDivInt(@[e], n_workers)]]
           out == [j \in 1..Len(ts) |->
                      einsum_nr_mr(ViewVal(h1, ps[j]), rows(ts[j]),
                                   ViewVal(h1, qs[j]), cols(ts[j]), ps[j].rank)]
       IN  mem' = [mem EXCEPT ![w] = WriteTensors(h1, At(grad_out, hr), out, 1)]
    /\ arrived' = [arrived EXCEPT ![w] =
           IF n_workers = 1 THEN @ ELSE SubSeq(@, 1, Len(@) - 1)]
    /\ pc' = [pc EXCEPT ![w] = "rank1.unpack"]
    /\ UNCHANGED <<self, local, pending, wire, bits_communicated>>
    /\ SelfFrame

\* the reduce calls of the reducers with factor memory, up to MaxCalls on
\* every instance
FactorNext ==
    \/ RankKNext
    \/ \E w \in Workers : Half_Rank1(w)
    \/ \E w \in Workers : Half_Factor(w)
    \/ \E w \in Workers : Half_OuterProd(w)
    \/ \E w \in Workers : RankK_Call(w)

(***************************************************************************)
(* AtomoReducer.sample_singular_values: one call, for a probability vector *)
(* over 0, 1/2 and 1 and a configured rank.  torch.rand draws every noise  *)
(* element from [0, 1): a probability of 1 exceeds it, a probability of 0  *)
(* does not, a probability of 1/2 may or may not.                          *)
(***************************************************************************)
\* if n_attempts > 1000: raise Exception("Ran out of attempts")
AttemptBudget == 1000
\* longest probability vector
MaxSingular == 2

ProbVals == {RInt(0), RNorm(1, 2), RInt(1)}

ProbVectors == UNION {[1..n -> ProbVals] : n \in 0..MaxSingular}

\* probabilities > noise can come out true, can come out false
may_exceed(p) == p.num > 0
may_fail(p) == p.num < p.den

\* the outcomes of probabilities > noise for one draw of noise
Masks(probabilities) ==
    {mask \in [1..Len(probabilities) -> BOOLEAN] :
        \A i \in 1..Len(probabilities) :
            /\ mask[i] => may_exceed(probabilities[i])
            /\ ~mask[i] => may_fail(probabilities[i])}

\* indices[mask] with indices = torch.arange(len(probabilities))
masked_indices(mask) ==
    [j \in 1..Len(SelectSeq(Positions(Len(mask)), LAMBDA i : mask[i])) |->
        SelectSeq(Positions(Len(mask)), LAMBDA i : mask[i])[j] - 1]

\* probabilities[mask]
masked(probabilities, mask) ==
    At(probabilities, SelectSeq(Positions(Len(mask)), LAMBDA i : mask[i]))

\* the call sample_singular_values(probabilities) on a reducer of rank r,
\* after pick = [] and n_attempts = 0; sample_probs is not bound yet
AtomoInit ==
    \E r \in 0..(MaxSingular + 1), v \in ProbVectors :
        atomo = [rank |-> r, probabilities |-> v, pick |-> <<>>,
                 sample_probs |-> <<>>, bound |-> FALSE, n_attempts |-> 0,
                 pc |-> "while"]

\* one pass of the loop: a draw of noise, the pick and its probabilities
Atomo_Draw ==
    /\ atomo.pc = "while"
    /\ Len(atomo.pick) # atomo.rank
    /\ ~(atomo.n_attempts > AttemptBudget)
    /\ \E mask \in Masks(atomo.probabilities) :
           atomo' = [atomo EXCEPT
                        !.pick = masked_indices(mask),
                        !.sample_probs = masked(atomo.probabilities, mask),
                        !.bound = TRUE,
                        !.n_attempts = @ + 1]
    /\ AtomoFrame

\* raise Exception("Ran out of attempts")
Atomo_Raise ==
    /\ atomo.pc = "while"
    /\ Len(atomo.pick) # atomo.rank
    /\ atomo.n_attempts > AttemptBudget
    /\ atomo' = [atomo EXCEPT !.pc = "Exception"]
    /\ AtomoFrame

\* return pick, sample_probs
Atomo_Return ==
    /\ atomo.pc = "while"
    /\ Len(atomo.pick) = atomo.rank
    /\ atomo.bound
    /\ atomo' = [atomo EXCEPT !.pc = "return"]
    /\ AtomoFrame

\* return pick, sample_probs when the loop body never ran: sample_probs is
\* not bound
Atomo_Unbound ==
    /\ atomo.pc = "while"
    /\ Len(atomo.pick) = atomo.rank
    /\ ~atomo.bound
    /\ atomo' = [atomo EXCEPT !.pc = "UnboundLocalError"]
    /\ AtomoFrame

AtomoNext ==
    \/ Atomo_Draw
    \/ Atomo_Raise
    \/ Atomo_Return
    \/ Atomo_Unbound

(***************************************************************************)
(* orthogonalize as a machine of its own: one step per pass of its loop    *)
(* over the columns, on a matrix drawn from a bounded set.                 *)
(***************************************************************************)
MaxRows == 2

\* the matrices have integer entries times a scale: of the order of one, with
\* entries that give the norm 5 and projections that are not axis-aligned,
\* and of the order of eps
OrthoScaled == {<<RInt(1), {-1, 0, 1, 3, 4}>>, <<eps, {-1, 0, 1}>>}

IsSquare(k) == \E r \in 0..k : r * r = k

\* the squared norm of a column, relative to its largest entry
RelSquares(col) ==
    LET s == RMaxAbs(col)
    IN  RSum([k \in 1..Len(col) |-> RMul(RDiv(col[k], s), RDiv(col[k], s))])

\* the matrices on which the arithmetic of the passes from column i on is
\* followed exactly: every norm is nonzero and rational, and is either large
\* enough for eps to be rounded away or as small as the scale eps
RECURSIVE ExactPasses(_, _, _, _)
ExactPasses(A, n, m, i) ==
    \/ i > m
    \/ LET col == column(A, n, m, i)
       IN  /\ RMaxAbs(col).num # 0
           /\ IsSquare(RelSquares(col).num)
           /\ IsSquare(RelSquares(col).den)
           /\ \/ RLeq(RNorm(1, 4), l2norm(col))
              \/ RLeq(l2norm(col), RMul(RInt(8), eps))
           /\ ExactPasses(orthogonalize_column(A, n, m, i), n, m, i + 1)

\* the residual of column j against the residuals of the columns before it,
\* without any normalisation
RECURSIVE residual(_, _, _, _)
residual(A, n, m, j) ==
    LET a == column(A, n, m, j)
        RECURSIVE minus(_, _)
        minus(v, i) ==
            IF i = 0 THEN v
            ELSE LET r  == residual(A, n, m, i)
                     rr == RSum([k \in 1..n |-> RMul(r[k], r[k])])
                     ra == RSum([k \in 1..n |-> RMul(r[k], a[k])])
                 IN  minus([k \in 1..n |->
                               RSub(v[k], RMul(RDiv(ra, rr), r[k]))], i - 1)
    IN  minus(a, j - 1)

\* the columns of A are linearly independent
RECURSIVE independent_upto(_, _, _, _)
independent_upto(A, n, m, j) ==
    \/ j = 0
    \/ /\ independent_upto(A, n, m, j - 1)
       /\ \E k \in 1..n : residual(A, n, m, j)[k].num # 0

full_column_rank(A, n, m) == independent_upto(A, n, m, m)

\* the n x m inputs: integer entries times a scale, of full column rank;
\* two columns are enough for the projection to act
OrthoInputs(n, m) ==
    {A \in UNION {[1..(n * m) -> {RMul(RInt(x), c[1]) : x \in c[2]}] :
                      c \in OrthoScaled} :
        /\ full_column_rank([e \in 1..(n * m) |-> RInt(A[e].num)], n, m)
        /\ ExactPasses(A, n, m, 1)}

OrthoInit ==
    \E n \in 1..MaxRows : \E m \in 1..Min(n, 2) : \E A \in OrthoInputs(n, m) :
        ortho = [matrix |-> A, input |-> A, n |-> n, m |-> m, i |-> 1,
                 pc |-> "loop"]

\* for i in range(m): one pass; the function returns after the last one
Ortho_Column ==
    /\ ortho.pc = "loop"
    /\ ortho.i <= ortho.m
    /\ ortho' = [ortho EXCEPT
                    !.matrix = orthogonalize_column(ortho.matrix, ortho.n,
                                                    ortho.m, ortho.i),
                    !.i = ortho.i + 1,
                    !.pc = IF ortho.i = ortho.m THEN "done" ELSE "loop"]
    /\ OrthoFrame

OrthoNext == Ortho_Column

(***************************************************************************)
(* OminiReducer.reduce from reduce.setup_nnzchunk to                       *)
(* reduce.construct_nnzchunk: the chunk memory p_memory and its slices ps, *)
(* for the embedding tensors of one call.  An embedding tensor is given by *)
(* its bitmap q after reduce.sync_bitmap (one entry per row, the number of *)
(* workers with a nonzero in that row) and its number of columns m.        *)
(***************************************************************************)
MaxEmbeds == 3

\* the bitmaps of a tensor of one or two rows, summed over two workers that
\* touch the same rows
OmniBitmaps == UNION {[1..n -> {0, 2}] : n \in 1..2}
OmniTensors == {[q |-> q, m |-> m] : q \in OmniBitmaps, m \in 1..2}

\* torch.count_nonzero(q)
count_nonzero(q) == Cardinality({k \in 1..Len(q) : q[k] # 0})

\* self.p_memory[a : b] of a memory of len elements: the bounds of a slice
\* are clamped to the length
slice(len, a, b) ==
    [start |-> Min(a, len), stop |-> Max(Min(a, len), Min(b, len))]
numel(s) == s.stop - s.start

OmniInit(K) ==
    \E k \in K : \E ts \in [1..k -> OmniTensors] :
        omni = [high_rank_tensors |-> ts, p_total_size |-> 0, p_memory |-> None,
                ps |-> <<>>, p_idx |-> 0, i |-> 1, pc |-> "total"]

\* p_total_size += torch.count_nonzero(q) * m, for one tensor
Omni_Total ==
    /\ omni.pc = "total"
    /\ omni.i <= Len(omni.high_rank_tensors)
    /\ LET t == omni.high_rank_tensors[omni.i]
       IN  omni' = [omni EXCEPT
                       !.p_total_size = @ + count_nonzero(t.q) * t.m,
                       !.i = @ + 1]
    /\ OmniFrame

\* self.p_memory = torch.empty(p_total_size); ps = []; p_idx = 0
Omni_Allocate ==
    /\ omni.pc = "total"
    /\ omni.i > Len(omni.high_rank_tensors)
    /\ omni' = [omni EXCEPT !.p_memory = omni.p_total_size, !.ps = <<>>,
                            !.p_idx = 0, !.i = 1, !.pc = "slices"]
    /\ OmniFrame

\* p_idx += p_idx + torch.count_nonzero(q) * m
next_p_idx(p_idx, size) == p_idx + (p_idx + size)

\* ps.append(self.p_memory[p_idx : p_idx + size].view(-1)) and the step of
\* p_idx, for one tensor
Omni_Slice ==
    /\ omni.pc = "slices"
    /\ LET t    == omni.high_rank_tensors[omni.i]
           size == count_nonzero(t.q) * t.m
           last == omni.i = Len(omni.high_rank_tensors)
       IN  omni' = [omni EXCEPT
                       !.ps = Append(@, slice(omni.p_memory, omni.p_idx,
                                              omni.p_idx + size)),
                       !.p_idx = next_p_idx(omni.p_idx, size),
                       !.i = IF last THEN 1 ELSE @ + 1,
                       !.pc = IF last THEN "construct" ELSE "slices"]
    /\ OmniFrame

\* p[:] = matrix[torch.nonzero(q, as_tuple=True)].view(-1): the right-hand
\* side has count_nonzero(q) * m elements; the copy raises when p has another
\* number of elements, unless the one element of the right-hand side is
\* broadcast
Omni_Construct ==
    /\ omni.pc = "construct"
    /\ LET t    == omni.high_rank_tensors[omni.i]
           size == count_nonzero(t.q) * t.m
           last == omni.i = Len(omni.high_rank_tensors)
       IN  IF numel(omni.ps[omni.i]) = size \/ size = 1
           THEN omni' = [omni EXCEPT !.i = IF last THEN @ ELSE @ + 1,
                                     !.pc = IF last THEN "filled"
                                            ELSE "construct"]
           ELSE omni' = [omni EXCEPT !.pc = "raised"]
    /\ OmniFrame

OmniNext ==
    \/ Omni_Total
    \/ Omni_Allocate
    \/ Omni_Slice
    \/ Omni_Construct

(***************************************************************************)
(* Specifications.                                                         *)
(***************************************************************************)
InitCodec == CodecInit /\ TBIdle /\ RedIdle /\ AtomoIdle /\ OrthoIdle /\ OmniIdle

SpecCodec == InitCodec /\ [][CodecNext]_vars

InitTB == TBInit /\ CodecIdle /\ RedIdle /\ AtomoIdle /\ OrthoIdle /\ OmniIdle

SpecTB == InitTB /\ [][TBNext]_vars

InitExact == RedInit({"ExactReducer"}, 1..MaxWorkers) /\ CodecIdle /\ TBIdle /\ AtomoIdle /\ OrthoIdle /\ OmniIdle

SpecExact == InitExact /\ [][ExactNext]_vars
InitTopK == RedInit({"TopKReducer"}, 1..MaxWorkers) /\ CodecIdle /\ TBIdle /\ AtomoIdle /\ OrthoIdle /\ OmniIdle

SpecTopK == InitTopK /\ [][TopKNext]_vars

Reducers == {"ExactReducer", "TopKReducer", "SignReducer", "Exact_Embed_Reducer"}

\* one reduce call of any of the reducers with a single worker
InitSingle == RedInit(Reducers, {1}) /\ CodecIdle /\ TBIdle /\ AtomoIdle /\ OrthoIdle /\ OmniIdle

SingleNext ==
    \/ \E w \in Workers : Exact_Single(w)
    \/ \E w \in Workers : TopK_Single(w)
    \/ \E w \in Workers : Sign_Single(w)
    \/ \E w \in Workers : Embed_Clone(w)
    \/ \E w \in Workers : Embed_Local(w)
    \/ \E w \in Workers : Embed_Rank1(w)
    \/ \E w \in Workers : Embed_Unpack(w)
    \/ Collective

SpecSingle == InitSingle /\ [][SingleNext]_vars

\* one reduce call of any of the reducers on every worker of a world of
\* 1..MaxWorkers workers
Init == RedInit(Reducers, 1..MaxWorkers) /\ CodecIdle /\ TBIdle /\ AtomoIdle /\ OrthoIdle /\ OmniIdle

Next ==
    \/ \E w \in Workers : Exact_Single(w)
    \/ \E w \in Workers : Exact_Pack(w)
    \/ \E w \in Workers : Exact_Unpack(w)
    \/ \E w \in Workers : TopK_Single(w)
    \/ \E w \in Workers : TopK_Gather(w)
    \/ \E w \in Workers : TopK_Combine(w)
    \/ \E w \in Workers : Sign_Single(w)
    \/ \E w \in Workers : Sign_Gather(w)
    \/ \E w \in Workers : Sign_Average(w)
    \/ \E w \in Workers : Embed_Clone(w)
    \/ \E w \in Workers : Embed_Local(w)
    \/ \E w \in Workers : Embed_GatherNnz(w)
    \/ \E w \in Workers : Embed_GatherIndices(w)
    \/ \E w \in Workers : Embed_IndicesRaise(w)
    \/ \E w \in Workers : Embed_GatherValues(w)
    \/ \E w \in Workers : Embed_Densify(w)
    \/ \E w \in Workers : Embed_Rank1(w)
    \/ \E w \in Workers : Embed_Unpack(w)
    \/ Collective

Spec == Init /\ [][Next]_vars

\* one reduce call of RankKReducer or RankKSparseReducer on every worker
InitRankK ==
    RankKInit(1..MaxWorkers, RankKShapeLists, {FALSE},
              {<<-1, 0, 2>>, <<0, 2, -1>>, <<0, 0, 0>>})
        /\ CodecIdle /\ TBIdle /\ AtomoIdle /\ OrthoIdle /\ OmniIdle

SpecRankK == InitRankK /\ [][RankKNext]_vars

\* up to MaxCalls reduce calls on two instances of RankKReducer or
\* RankKSparseReducer built with the same arguments, the workers of a world
\* of two, each fed gradient sets of its own
InitRankKCalls ==
    RankKInit({2}, {sl \in RankKShapeLists : Len(sl) = 2}, BOOLEAN,
              {<<-1, 0, 2>>, <<0, 0, 0>>})
        /\ CodecIdle /\ TBIdle /\ AtomoIdle /\ OrthoIdle /\ OmniIdle

RankKCallsNext ==
    \/ RankKNext
    \/ \E w \in Workers : RankK_Call(w)

SpecRankKCalls == InitRankKCalls /\ [][RankKCallsNext]_vars

\* up to MaxCalls reduce calls on one RankKReducer instance per worker, the
\* gradient list holding a matrix at a position the reducer compresses
InitRankKReuse ==
    RankKInit({2}, {sl \in RankKShapeLists : Len(sl) = 21}, BOOLEAN,
              {<<-1, 0, 2>>})
        /\ reducer = "RankKReducer"
        /\ CodecIdle /\ TBIdle /\ AtomoIdle /\ OrthoIdle /\ OmniIdle

SpecRankKReuse == InitRankKReuse /\ [][RankKCallsNext]_vars

\* a gradient list longer than the lists written in RankKReducer.reduce:
\* forty-five biases and a matrix at position 21
LongShapeList ==
    [i \in 1..46 |->
        IF i = 21 THEN [name |-> "weight", shape |-> <<1, 2>>]
                  ELSE [name |-> "bias", shape |-> <<1>>]]

\* one reduce call of RankKReducer on that list on every worker
InitRankKLong ==
    RankKInit(1..MaxWorkers, {LongShapeList}, {FALSE},
              {<<-1, 0, 2>>, <<0, 0, 0>>})
        /\ reducer = "RankKReducer"
        /\ CodecIdle /\ TBIdle /\ AtomoIdle /\ OrthoIdle /\ OmniIdle

SpecRankKLong == InitRankKLong /\ [][RankKNext]_vars

\* the module is imported, a SignReducer is constructed on every worker and
\* its reduce is called once
InitSign == SignInit(1..MaxWorkers) /\ CodecIdle /\ TBIdle /\ AtomoIdle /\ OrthoIdle /\ OmniIdle

SignLifeNext ==
    \/ \E w \in Workers : Sign_Construct(w)
    \/ \E w \in Workers : Sign_NameError(w)
    \/ SignNext

SpecSign == InitSign /\ [][SignLifeNext]_vars

\* one reduce call of SignSGDwithMajorityVoteReducer on every worker
InitMajority ==
    RedInit({"SignSGDwithMajorityVoteReducer"}, 1..MaxWorkers)
        /\ CodecIdle /\ TBIdle /\ AtomoIdle /\ OrthoIdle /\ OmniIdle

SpecMajority == InitMajority /\ [][MajorityNext]_vars

\* one call of AtomoReducer.sample_singular_values
InitAtomo ==
    AtomoInit /\ CodecIdle /\ TBIdle /\ RedIdle /\ OrthoIdle /\ OmniIdle

SpecAtomo == InitAtomo /\ [][AtomoNext]_vars

\* orthogonalize alone
InitOrtho ==
    OrthoInit /\ CodecIdle /\ TBIdle /\ RedIdle /\ AtomoIdle /\ OmniIdle

SpecOrtho == InitOrtho /\ [][OrthoNext]_vars

\* up to MaxCalls reduce calls on a Multi_RankKReducer or a HalfRankKReducer
\* per worker, alone or in a world of two
InitFactor ==
    FactorInit({"Multi_RankKReducer", "HalfRankKReducer"}, {1, 2})
        /\ CodecIdle /\ TBIdle /\ AtomoIdle /\ OrthoIdle /\ OmniIdle

SpecFactor == InitFactor /\ [][FactorNext]_vars

\* the chunk memory of one OminiReducer.reduce call
InitOmni ==
    OmniInit(1..MaxEmbeds) /\ CodecIdle /\ TBIdle /\ RedIdle /\ AtomoIdle
    /\ OrthoIdle

SpecOmni == InitOmni /\ [][OmniNext]_vars

(***************************************************************************)
(* Properties.                                                             *)
(***************************************************************************)
\* C1: once every worker has completed one ExactReducer.reduce, grad_out[i]
\* on every worker is (the sum over the workers of their grad_in[i]) / N,
\* element by element.
C1_ExactMean ==
    (reducer = "ExactReducer" /\ \A w \in Workers : pc[w] = "done") =>
        \A w \in Workers : \A i \in 1..Len(grad_out) :
            /\ Len(Val(mem[w], grad_out[i])) = Len(g0[w][i])
            /\ \A x \in 1..Len(g0[w][i]) :
                 Val(mem[w], grad_out[i])[x] =
                    RNorm(SeqSum([v \in Workers |-> g0[v][i][x].num]), n_workers)

C1_Witness ==
    /\ reducer = "ExactReducer"
    /\ n_workers = 2
    /\ Len(grad_out) = 2
    /\ \A w \in Workers : pc[w] = "done"
    /\ Val(mem[1], grad_out[1])[2].den = 2
    /\ g0[1][2] # g0[2][2]

Selected(w, i) ==
    Range(Segment(local[w].flat_positions, local[w].start_idx[i],
                  local[w].end_idx[i]))

\* the magnitudes of a tensor are pairwise distinct
DistinctMagnitudes(data) ==
    \A x, y \in 1..Len(data) :
        x # y => (RAbsGreater(data[x], data[y]) \/ RAbsGreater(data[y], data[x]))

\* the positions with fewer than k entries of strictly larger magnitude
Largest(data, k) ==
    {x \in 0..(Len(data) - 1) :
        Cardinality({y \in 1..Len(data) : RAbsGreater(data[y], data[x + 1])}) < k}

\* C4: for a tensor of pairwise distinct magnitudes the selected positions are
\* exactly the top_size positions of largest magnitude, and with one worker
\* grad_out is 0 at every unselected position and grad_in at every selected one.
C4_TopKSelection ==
    reducer = "TopKReducer" =>
        \A w \in Workers : \A i \in 1..Len(grad_in) :
            (pc[w] # "start" /\ DistinctMagnitudes(g0[w][i])) =>
                /\ Selected(w, i) =
                      Largest(g0[w][i], top_size(compression, Len(g0[w][i])))
                /\ Cardinality(Selected(w, i)) =
                      Max(1, (compression[1] * Len(g0[w][i])) \div (2 * compression[2]))
                /\ (n_workers = 1 /\ pc[w] = "done") =>
                      \A x \in 1..Len(g0[w][i]) :
                          Val(mem[w], grad_out[i])[x] =
                              IF (x - 1) \in Selected(w, i)
                              THEN g0[w][i][x] ELSE RInt(0)

C4_Witness ==
    /\ reducer = "TopKReducer"
    /\ n_workers = 1
    /\ pc[1] = "done"
    /\ Len(g0[1][1]) = 3
    /\ DistinctMagnitudes(g0[1][1])
    /\ Selected(1, 1) = {0, 2}
    /\ Val(mem[1], grad_out[1]) = <<RInt(-1), RInt(0), RInt(2)>>
    /\ g0[1][1][2] = RInt(0)

\* C5: after reduce, on every worker and for any number of workers,
\* memory_out[i] is grad_in[i] with the positions this worker selected set
\* to 0; with one worker grad_out[i] + memory_out[i] is grad_in[i].
C5_TopKMemory ==
    reducer = "TopKReducer" =>
        \A w \in Workers : pc[w] = "done" =>
            \A i \in 1..Len(grad_in) : \A x \in 1..Len(g0[w][i]) :
                /\ Val(mem[w], memory_out[i])[x] =
                      IF (x - 1) \in Selected(w, i) THEN RInt(0) ELSE g0[w][i][x]
                /\ n_workers = 1 =>
                      RAdd(Val(mem[w], grad_out[i])[x], Val(mem[w], memory_out[i])[x])
                          = g0[w][i][x]

C5_Witness ==
    /\ reducer = "TopKReducer"
    /\ n_workers = 2
    /\ \A w \in Workers : pc[w] = "done"
    /\ Len(g0[2][1]) = 3
    /\ Selected(2, 1) = {2}
    /\ g0[2][1] = <<RInt(-1), RInt(0), RInt(2)>>
    /\ Val(mem[2], memory_out[1]) = <<RInt(-1), RInt(0), RInt(0)>>

\* C6: after reduce with N workers, grad_out at every position is the sum of
\* the values of exactly the workers that selected the position, divided by N
\* (0 where no worker selected it), and is the same on every worker.
C6_TopKCombine ==
    (reducer = "TopKReducer" /\ \A w \in Workers : pc[w] = "done") =>
        \A w \in Workers : \A i \in 1..Len(grad_out) :
            /\ Val(mem[w], grad_out[i]) = Val(mem[1], grad_out[i])
            /\ \A x \in 1..Len(g0[w][i]) :
                 Val(mem[w], grad_out[i])[x] =
                    RNorm(SeqSum([v \in Workers |->
                              IF (x - 1) \in Selected(v, i)
                              THEN g0[v][i][x].num ELSE 0]), n_workers)

C6_Witness ==
    /\ reducer = "TopKReducer"
    /\ n_workers = 2
    /\ \A w \in Workers : pc[w] = "done"
    /\ Len(g0[1][1]) = 3
    /\ Selected(1, 1) = {0, 1}
    /\ Selected(2, 1) = {1, 2}
    /\ g0[1][1] = <<RInt(2), RInt(-1), RInt(0)>>
    /\ g0[2][1] = <<RInt(0), RInt(2), RInt(-1)>>
    /\ Val(mem[2], grad_out[1]) = <<RInt(1), [num |-> 1, den |-> 2], [num |-> -1, den |-> 2]>>

\* C7 as stated: the value reduce returns is the sum of 8 * nelement *
\* element_size over exactly the tensors the worker placed on a collective
\* during the call.
C7_BitsAccounting ==
    \A w \in Workers : pc[w] = "done" =>
        bits_communicated[w] =
            SeqSum([j \in 1..Len(wire[w]) |->
                        8 * wire[w][j].nelement * wire[w][j].esize])

\* C8: the offsets of a TensorBuffer: start[0] = 0, end[i] = start[i] +
\* nelement(i), start[i+1] = end[i], end[last] = buffer.nelement() = the sum
\* of the element counts; the segments are pairwise disjoint, the same for
\* every element size, and stay so after any pack, unpack, all_reduce,
\* all_gather.
C8_OffsetInvariant ==
    Constructed =>
        LET k     == Len(tensors)
            count == [i \in 1..k |-> SeqProd(tensors[i].shape)]
        IN  /\ Len(tbuf._start_idx) = k
            /\ Len(tbuf._end_idx) = k
            /\ tbuf._start_idx[1] = 0
            /\ \A i \in 1..k : tbuf._end_idx[i] = tbuf._start_idx[i] + count[i]
            /\ \A i \in 1..(k - 1) : tbuf._start_idx[i + 1] = tbuf._end_idx[i]
            /\ tbuf._end_idx[k] = SeqSum(count)
            /\ tbuf._end_idx[k] = Len(heap[tbuf.buffer.addr])
            /\ tbuf._end_idx[k] = TB_nelement(tbuf)
            /\ \A i, j \in 1..k : i < j => tbuf._end_idx[i] <= tbuf._start_idx[j]

\* two non-empty segments, after MaxOps calls with an all_gather and a pack
C8_Witness ==
    /\ Constructed
    /\ Len(tensors) = 2
    /\ tbuf._start_idx[2] = 2
    /\ tbuf._end_idx[2] = 4
    /\ Len(tb_hist) >= 4
    /\ {"all_gather", "pack", "all_reduce"} \subseteq Range(tb_hist)

\* C9: TensorBuffer(xs) followed by unpack(ds) leaves ds[i] equal to xs[i]
\* element for element (every element of xs differs from every other, so
\* none has landed in another tensor).
C9_UnpackRoundTrip ==
    tb_hist = <<"new", "unpack">> =>
        \A i \in 1..Len(tensors) :
            /\ heap[dests[i].addr] = heap[tensors[i].addr]
            /\ heap[dests[i].addr] = Labels(i, SeqProd(tensors[i].shape))

\* two tensors of two elements each copied out
C9_Witness ==
    /\ tb_hist = <<"new", "unpack">>
    /\ Len(tensors) = 2
    /\ heap[dests[1].addr] = <<RInt(11), RInt(12)>>
    /\ heap[dests[2].addr] = <<RInt(21), RInt(22)>>

\* C10: the buffer is a storage of its own: as long as the caller has not
\* written a source tensor, every source holds what it held at construction
\* whatever was done to the buffer (all_reduce, division, pack, unpack,
\* all_gather); and as long as nothing wrote the buffer (no pack, all_reduce
\* or division), the buffer holds what it held at construction whatever the
\* caller wrote into the sources.
C10_CopySemantics ==
    Constructed =>
        LET k == Len(tensors)
            original == [i \in 1..k |-> Labels(i, SeqProd(tensors[i].shape))]
        IN  /\ \A i \in 1..k : tbuf.buffer.addr # tensors[i].addr
            /\ "source_write" \notin Range(tb_hist) =>
                   \A i \in 1..k : heap[tensors[i].addr] = original[i]
            /\ Range(tb_hist) \subseteq {"new", "source_write", "unpack", "all_gather"} =>
                   heap[tbuf.buffer.addr] = Cat(original)

\* a buffer built from one tensor, summed with another worker's and divided:
\* the buffer has changed and the source has not
C10_Witness ==
    /\ tb_hist = <<"new", "all_reduce", "divide">>
    /\ tb_n = 2
    /\ Len(tensors) = 1
    /\ heap[tensors[1].addr] = <<RInt(11), RInt(12)>>
    /\ heap[tbuf.buffer.addr] = <<RInt(6), RNorm(13, 2)>>

\* C12: with n_workers == 1 a reduce call performs no call into the
\* transport: nothing is launched on it and nothing waits for it.
C12_SingleWorkerBypass ==
    n_workers = 1 =>
        \A w \in Workers : wire[w] = <<>> /\ pending[w] = <<>>

\* C13: the workers take part in the same sequence of collectives (same
\* kind, same order, same buffer sizes) whatever their gradient values:
\* the collectives launched by one worker are a prefix of those launched by
\* any other or the other way round, and no worker has left reduce while
\* another one is blocked in a collective.
SamePrefix(s, t) ==
    \A j \in 1..Min(Len(s), Len(t)) : s[j] = t[j]

C13_LockStep ==
    \A w, v \in Workers :
        /\ SamePrefix(wire[w], wire[v])
        /\ ~(pc[w] \in {"done", "error"} /\ pending[v] # <<>>)

\* C19: after reduce of an embedding reducer every tensor of grad_out whose
\* name contains 'embed' holds the mean over the workers of that tensor.
C19_EmbeddingOutput ==
    (reducer = "Exact_Embed_Reducer" /\ \A w \in Workers : pc[w] = "done") =>
        \A w \in Workers : \A i \in 1..Len(names) :
            names[i] \in EmbedNames =>
                Val(mem[w], grad_out[i]) =
                    [e \in 1..nelement(grad_out[i]) |->
                        RDivInt(SumUpTo([v \in Workers |-> g0[v][i]], e, n_workers),
                                n_workers)]

\* C11: after reduce of a low-rank reducer memory_out[i] holds
\* grad_in[i] - grad_out[i] for every tensor that went through the low-rank
\* path and zeros for every tensor that went through the rank-1 passthrough,
\* whatever memory_out held before the call.
C11_Residual ==
    \A w \in Workers :
        (reducer \in RankKFamily /\ pc[w] = "done") =>
            /\ \A i \in Range(local[w].high_rank) :
                   Val(mem[w], memory_out[i]) =
                       [e \in 1..nelement(grad_in[i]) |->
                           RSub(g0[w][i][e], Val(mem[w], grad_out[i])[e])]
            /\ \A i \in Range(local[w].rank1) :
                   Val(mem[w], memory_out[i]) =
                       [e \in 1..nelement(grad_in[i]) |-> RInt(0)]

\* C16: a rank that is not below min(n, m) of some compressed tensor is a
\* configuration error: reduce does not go on with it, and no tensor is
\* compressed with a rank smaller than the configured one.
C16_RankError ==
    \A w \in Workers :
        (reducer \in RankKFamily /\ pc[w] \notin {"start", "error"}) =>
            \A j \in 1..Len(local[w].high_rank) :
                LET t == grad_in[local[w].high_rank[j]]
                IN  /\ rank < Min(rows(t), cols(t))
                    /\ local[w].ps[j].rank = rank

\* C20: RankKReducer sends a tensor through the rank-1 passthrough exactly
\* when it has one dimension and through the low-rank path exactly when it
\* has two or more.
C20_Routing ==
    \A w \in Workers :
        (reducer = "RankKReducer" /\ pc[w] # "start") =>
            \A i \in 1..Len(grad_in) :
                /\ i \in Range(local[w].rank1) <=> ndimension(grad_in[i]) = 1
                /\ i \in Range(local[w].high_rank) <=> ndimension(grad_in[i]) >= 2

\* the rank-1 tensors of worker v's gradient set, packed, and their
\* element-wise sum over the workers
PackedRank1(v) ==
    Cat([j \in 1..Len(rank1_of(reducer, grad_in)) |->
            g0[v][rank1_of(reducer, grad_in)[j]]])

RECURSIVE SumPackedUpTo(_)
SumPackedUpTo(v) ==
    IF v = 1 THEN PackedRank1(1)
    ELSE LET a == SumPackedUpTo(v - 1)
             b == PackedRank1(v)
         IN  [e \in 1..Len(b) |-> RAdd(a[e], b[e])]

SumRank1 == SumPackedUpTo(n_workers)

C17_FailFast ==
    (reducer = "SignReducer" /\ ~bit2byte) =>
        \A w \in Workers : pc[w] \in {"new", "error"}

\* C18: sample_singular_values ends by returning a pick of exactly rank
\* indices with their probabilities or by raising the exhaustion error once
\* the attempt budget is used up; it ends in no other way, returns no pick
\* of another size and makes no draw after the budget is used up.
C18_Sampling ==
    /\ atomo.pc \in {"while", "return", "Exception"}
    /\ atomo.pc = "return" =>
           /\ Len(atomo.pick) = atomo.rank
           /\ atomo.sample_probs =
                  [j \in 1..Len(atomo.pick) |->
                      atomo.probabilities[atomo.pick[j] + 1]]
    /\ atomo.pc = "Exception" => atomo.n_attempts > AttemptBudget
    /\ atomo.n_attempts <= AttemptBudget + 1

\* C25: after SignReducer.reduce memory_out[i] holds grad_in[i] minus what
\* was encoded for it, grad_in[i] - sign(grad_in[i]) element by element.
C25_SignMemory ==
    \A w \in Workers :
        (reducer = "SignReducer" /\ pc[w] = "done") =>
            \A i \in 1..Len(grad_in) :
                Val(mem[w], memory_out[i]) =
                    [e \in 1..nelement(grad_in[i]) |->
                        RSub(g0[w][i][e], RInt(sign(g0[w][i][e])))]

\* what the bit codec returns for the flat gradient of worker v, and for a
\* zero input
CodedSigns(v) ==
    LET flat == Cat(g0[v])
        c    == compress([shape |-> <<Len(flat)>>, data |-> flat])
    IN  uncompress(c[1], c[2]).data

CodedZero ==
    LET c == compress([shape |-> <<1>>, data |-> <<RInt(0)>>])
    IN  uncompress(c[1], c[2]).data[1]

\* C24: after SignSGDwithMajorityVoteReducer.reduce every coordinate of
\* grad_out is +1 when more workers contributed +1 than -1, -1 when fewer
\* did, and on a tie the value the codec gives a zero input; every
\* coordinate is -1 or +1 and the result is the same on every worker.
C24_MajorityVote ==
    (reducer = "SignSGDwithMajorityVoteReducer"
        /\ \A w \in Workers : pc[w] = "done") =>
        \A w \in Workers :
            LET out == Cat([i \in 1..Len(grad_out) |-> Val(mem[w], grad_out[i])])
            IN  /\ \A k \in 1..Len(out) :
                       LET s == sign(SumUpTo([v \in Workers |-> CodedSigns(v)],
                                             k, n_workers))
                       IN  out[k] = IF s = 0 THEN CodedZero ELSE RInt(s)
                /\ \A k \in 1..Len(out) : out[k] \in {RInt(-1), RInt(1)}
                /\ out = Cat([i \in 1..Len(grad_out) |-> Val(mem[1], grad_out[i])])

\* C22: RankKReducer with reuse_query draws a random Q, one generator draw
\* per compressed tensor, in the first reduce call only; in a later call no
\* draw is made and the Q that P is computed from is the content of q_memory
\* as the previous call left it.  Without reuse_query every call draws a
\* fresh Q for every compressed tensor.
C22_QueryReuse ==
    [][\A w \in Workers :
        /\ (reducer = "RankKReducer" /\ pc[w] = "start" /\ pc'[w] = "reduce.p") =>
              LET l  == local'[w]
                  H  == Len(l.high_rank)
                  ts == At(grad_in, l.high_rank)
                  q_memory == self'[w].q_memory
              IN  /\ IF reuse_query /\ n_calls[w] > 0
                     THEN /\ self'[w].rng = self[w].rng
                          /\ l.choices.seeds = <<>>
                          /\ q_memory = self[w].q_memory
                          /\ mem'[w][q_memory.addr] = mem[w][q_memory.addr]
                     ELSE /\ self'[w].rng = rng_after(self[w].rng, H)
                          /\ Len(l.choices.seeds) = H
                          /\ \A j \in 1..H :
                                 /\ l.choices.seeds[j] =
                                        randint(rng_after(self[w].rng, j - 1), 1000000000)
                                 /\ ViewVal(mem'[w], l.qs[j]) =
                                        randn(l.choices.seeds[j],
                                              cols(ts[j]) * l.qs[j].rank)
                  /\ \A j \in 1..H :
                         ViewVal(mem'[w], l.ps[j]) =
                             matmul(Val(mem[w], ts[j]), rows(ts[j]), cols(ts[j]),
                                    ViewVal(mem'[w], l.qs[j]), l.qs[j].rank)
        /\ (reducer = "RankKReducer" /\ pc[w] \in {"rank1.unpack", "waited", "done"}) =>
              /\ self'[w].q_memory = self[w].q_memory
              /\ mem'[w][self[w].q_memory.addr] = mem[w][self[w].q_memory.addr]
      ]_vars

\* the second call of a reducer that reuses its query has computed P: no
\* seed was drawn, and q_memory holds the mean the first call left, which is
\* not what a draw gives
C22_Witness ==
    /\ reducer = "RankKReducer"
    /\ reuse_query
    /\ n_workers = 2
    /\ n_calls[1] = 1
    /\ pc[1] = "reduce.p"
    /\ Len(local[1].high_rank) = 1
    /\ local[1].choices.seeds = <<>>
    /\ self[1].rng = rng_step(RandomState(random_seed))
    /\ mem[1][self[1].q_memory.addr] = <<RInt(0), RInt(2)>>

\* C29: a reduce call leaves every element of every tensor of grad_in as
\* the caller passed it.
C29_InputReadOnly ==
    \A w \in Workers : \A i \in 1..Len(grad_in) :
        Val(mem[w], grad_in[i]) = g0[w][i]

\* C28: whatever the length of the gradient list, every index is taken by
\* exactly one of the rank-1 passthrough and the low-rank path, and when
\* reduce returns every tensor of grad_out has been written in this call.
C28_AllWritten ==
    \A w \in Workers :
        (reducer \in RankKFamily /\ pc[w] = "done") =>
            \A i \in 1..Len(grad_in) :
                /\ (i \in Range(local[w].rank1)) # (i \in Range(local[w].high_rank))
                /\ Val(mem[w], grad_out[i]) #
                       [e \in 1..nelement(grad_out[i]) |-> StaleOut]

\* C26: after construction the reducer of every worker holds the world size
\* in n_workers and the worker's rank in the group in rank, and no
\* constructor argument or reduce call changes them.
C26_WorkerIdentity ==
    \A w \in Workers :
        pc[w] # "new" =>
            /\ self[w].n_workers = n_workers
            /\ self[w].rank = w - 1


\* P^T P of a flat row-major n x m matrix
gram(P, n, m) == matmul(transpose(P, n, m), m, n, P, m)
\* the m x m identity matrix, flat
identity(m) ==
    [e \in 1..(m * m) |->
        RInt(IF (e - 1) \div m = (e - 1) % m THEN 1 ELSE 0)]
\* every entry of A is within tol of the entry of B
within(A, B, tol) ==
    \A e \in 1..Len(A) : RLeq(RAbs(RSub(A[e], B[e])), tol)

\* C27: after orthogonalize(P) on an n x m matrix P of full column rank, the
\* product P^T P is within numerical tolerance (here one thousandth) of the
\* m x m identity matrix
C27_Orthonormal ==
    ortho.pc = "done" =>
        within(gram(ortho.matrix, ortho.n, ortho.m), identity(ortho.m),
               RNorm(1, 1000))


\* the number of elements reduce.construct_nnzchunk writes for tensor i
chunk_size(i) ==
    count_nonzero(omni.high_rank_tensors[i].q) * omni.high_rank_tensors[i].m

\* C30: for any number of embedding tensors, once the slices ps are taken
\* from p_memory they are contiguous and pairwise disjoint, slice i has
\* exactly count_nonzero(q_i) * m_i elements, and together they cover
\* p_memory, which has the sum of these sizes as its number of elements
C30_ChunkLayout ==
    omni.pc \in {"construct", "filled", "raised"} =>
        LET k == Len(omni.high_rank_tensors)
        IN  /\ Len(omni.ps) = k
            /\ omni.p_memory = SeqSum([i \in 1..k |-> chunk_size(i)])
            /\ omni.ps[1].start = 0
            /\ omni.ps[k].stop = omni.p_memory
            /\ \A i \in 1..k : numel(omni.ps[i]) = chunk_size(i)
            /\ \A i \in 1..(k - 1) : omni.ps[i].stop = omni.ps[i + 1].start


\* sum(n_i * r_i) for side "p", sum(m_i * r_i) for side "q", over the
\* high-rank tensors of the call, with r_i = min(n_i, m_i, rank)
claimed_size(side) ==
    LET ts == At(grad_in, high_rank_of(reducer, grad_in))
    IN  SeqSum([j \in 1..Len(ts) |->
                   (IF side = "p" THEN rows(ts[j]) ELSE cols(ts[j]))
                       * Min(rows(ts[j]), Min(cols(ts[j]), rank))])

\* p_memory and q_memory of worker w are None before the first call, and
\* once allocated have the sizes of the claim
factor_memory_as_claimed(w) ==
    /\ (n_calls[w] = 0 /\ pc[w] = "start") =>
           is_None(self[w].p_memory) /\ is_None(self[w].q_memory)
    /\ (n_calls[w] > 0 \/ pc[w] \in {"rank1.unpack", "waited", "done"}) =>
           ~is_None(self[w].p_memory) /\ ~is_None(self[w].q_memory)
    /\ ~is_None(self[w].p_memory) =>
           self[w].p_memory.shape = <<claimed_size("p")>>
    /\ ~is_None(self[w].q_memory) =>
           self[w].q_memory.shape = <<claimed_size("q")>>

\* C21: for every reducer of the RankK family (RankKReducer,
\* Multi_RankKReducer, RankKSparseReducer, HalfRankKReducer) p_memory and
\* q_memory are None before the first reduce call, are allocated in the first
\* call with sum(n_i * r_i) and sum(m_i * r_i) elements where
\* r_i = min(n_i, m_i, rank), and in every later call are the same buffers:
\* no step replaces an allocated buffer or resets it to None
C21_LazyFactorMemory ==
    /\ [](\A w \in Workers : factor_memory_as_claimed(w))
    /\ [][\A w \in Workers :
            ~is_None(self[w].p_memory) =>
                /\ self'[w].p_memory = self[w].p_memory
                /\ self'[w].q_memory = self[w].q_memory]_vars


\* worker w takes the step of HalfRankKReducer.reduce that computes a factor
Half_computes(w) ==
    reducer = "HalfRankKReducer" /\ pc[w] = "build_index" /\ pc'[w] # "build_index"

\* worker w takes the step of HalfRankKReducer.reduce that divides the
\* reduced factor
Half_divides(w) ==
    reducer = "HalfRankKReducer" /\ pc[w] \in {"reduce.p", "reduce.q"}
        /\ pc'[w] = "rank1.unpack"

\* call number t of worker w (t = n_calls[w] + 1) is a P-step for odd t and a
\* Q-step for even t, next_operation flips, and the factor of the step, and
\* no other, is launched for the all_reduce and counted in the bits
Half_alternates(w) ==
    LET op   == IF n_calls[w] % 2 = 0 THEN "p" ELSE "q"
        sent == IF op = "p" THEN self'[w].p_memory ELSE self'[w].q_memory
    IN  /\ self[w].next_operation = op
        /\ self'[w].next_operation = (IF op = "p" THEN "q" ELSE "p")
        /\ local'[w].operation = op
        /\ pc'[w] = (IF op = "p" THEN "reduce.p" ELSE "reduce.q")
        /\ bits_communicated'[w] = bits_communicated[w] + n_bits(sent)
        /\ n_workers > 1 =>
               /\ pending'[w] =
                      Append(pending[w],
                             [op |-> "all_reduce", addr |-> sent.addr,
                              data |-> mem'[w][sent.addr]])
               /\ wire'[w] = Append(wire[w],
                                    Sent("all_reduce", nelement(sent), FloatSize))
        /\ n_workers = 1 => pending'[w] = pending[w] /\ wire'[w] = wire[w]

\* the views of the factor that the call of worker w does not compute, and
\* their numbers of rows
Half_other(w) ==
    IF n_calls[w] % 2 = 0 THEN local'[w].qs ELSE local'[w].ps
Half_other_rows(w) ==
    LET ts == At(grad_in, local[w].high_rank)
    IN  [j \in 1..Len(ts) |->
            IF n_calls[w] % 2 = 0 THEN cols(ts[j]) ELSE rows(ts[j])]

\* the reduced factor, and no other, is divided by n_workers
Half_divides_one(w) ==
    LET reduced == IF pc[w] = "reduce.p" THEN self[w].p_memory ELSE self[w].q_memory
        other   == IF pc[w] = "reduce.p" THEN self[w].q_memory ELSE self[w].p_memory
    IN  /\ mem'[w][reduced.addr] =
               [e \in 1..nelement(reduced) |->
                   RDivInt(mem[w][reduced.addr][e], n_workers)]
        /\ mem'[w][other.addr] = mem[w][other.addr]

=============================================================================
